---------------------------- MODULE Spec2Model ----------------------------
(***************************************************************************)
(* Model of arch-sparring-agent: the context condenser                     *)
(* (context_condenser.py), the five-phase orchestrator (orchestrator.py)   *)
(* and the review command of the CLI (cli.py).                             *)
(*                                                                         *)
(* Strings.  A Python str is modelled as a sequence of pieces.  A piece    *)
(* [src, k, lo, hi] is the slice lo..hi (1-based, inclusive) of the        *)
(* atomic string named (src, k); the characters of an atomic string are    *)
(* identified by their position, so slicing, concatenation, length and     *)
(* equality are computed exactly while the characters of model output stay *)
(* opaque.  Every model (LLM) call is one step whose outcome is chosen by  *)
(* the environment: a response string or a raised exception.               *)
(***************************************************************************)
EXTENDS Integers, Sequences, FiniteSets, TLC

(***************************************************************************)
(* Configuration (config.py, re-exported by context_condenser.py).         *)
(***************************************************************************)
PASSTHROUGH_THRESHOLD == 2000
CHUNK_SIZE == 8000
MAX_CHUNKS == 5

(***************************************************************************)
(* Bounds of the model.                                                    *)
(***************************************************************************)
\* inputs of the condenser run up to MAX_CHUNKS + MaxExtraChunks chunks
MaxExtraChunks == 1

(***************************************************************************)
(* Strings as sequences of pieces.                                         *)
(***************************************************************************)
Piece(src, k, n) == [src |-> src, k |-> k, lo |-> 1, hi |-> n]

Str(src, k, n) == IF n = 0 THEN << >> ELSE << Piece(src, k, n) >>

PieceLen(p) == p.hi - p.lo + 1

RECURSIVE StrLen(_)
StrLen(t) == IF t = << >> THEN 0 ELSE PieceLen(Head(t)) + StrLen(Tail(t))

\* t[:n]
RECURSIVE Take(_, _)
Take(t, n) ==
    IF n <= 0 \/ t = << >> THEN << >>
    ELSE LET p == Head(t) IN
         IF PieceLen(p) <= n
         THEN << p >> \o Take(Tail(t), n - PieceLen(p))
         ELSE << [p EXCEPT !.hi = p.lo + n - 1] >>

\* t[n:]
RECURSIVE Drop(_, _)
Drop(t, n) ==
    IF n <= 0 \/ t = << >> THEN t
    ELSE LET p == Head(t) IN
         IF PieceLen(p) <= n
         THEN Drop(Tail(t), n - PieceLen(p))
         ELSE << [p EXCEPT !.lo = p.lo + n] >> \o Tail(t)

\* t[a:b] for 0 <= a <= b
Slice(t, a, b) == Take(Drop(t, a), b - a)

\* sep.join(list)
RECURSIVE Join(_, _)
Join(sep, list) ==
    IF list = << >> THEN << >>
    ELSE IF Len(list) = 1 THEN list[1]
    ELSE list[1] \o sep \o Join(sep, Tail(list))

\* the literal "\n\n"
NewLines == Str("newlines", 0, 2)

\* mutant: the chunk numbered from 0, f"[Chunk {i} could not be processed]"
Placeholder_zeroBased(n) == Str("could not be processed", n - 1, IF n - 1 < 10 THEN 32 ELSE 33)

\* line 35: f"[Chunk {i + 1} could not be processed]", n being i + 1
Placeholder(n) == Str("could not be processed", n, IF n < 10 THEN 32 ELSE 33)

\* whether the string t holds the whole atomic string piece p
HasPiece(t, p) == \E j \in 1..Len(t) : t[j] = p

\* whether the string sub occurs in t as a run of whole pieces
Occurs(sub, t) ==
    \E j \in 0..(Len(t) - Len(sub)) : SubSeq(t, j + 1, j + Len(sub)) = sub

(***************************************************************************)
(* Exceptions.                                                             *)
(***************************************************************************)
Exc(cls, code) == [cls |-> cls, code |-> code]

NoExc == Exc("", "")

ContextWindowOverflowException == Exc("ContextWindowOverflowException", "")
MaxTokensReachedException == Exc("MaxTokensReachedException", "")
ClientError(code) == Exc("ClientError", code)

SizeErrors ==
    { ContextWindowOverflowException, MaxTokensReachedException,
      ClientError("ValidationException"), ClientError("ModelErrorException") }

OtherErrors == { ClientError("AccessDeniedException"), Exc("ValueError", "") }

(***************************************************************************)
(* Strings whose characters matter: the final review text is searched for  *)
(* words by the CLI, so the texts a review agent may return are given      *)
(* character by character; the review string (review, k) is the k-th.      *)
(***************************************************************************)
ReviewTexts ==
    <<
      \* "Verdict: PASS"
      << "V", "e", "r", "d", "i", "c", "t", ":", " ", "P", "A", "S", "S" >>,
      \* "Verdict: FAIL"
      << "V", "e", "r", "d", "i", "c", "t", ":", " ", "F", "A", "I", "L" >>,
      \* "Impact: High. Verdict: PASS WITH CONCERNS"
      << "I", "m", "p", "a", "c", "t", ":", " ", "H", "i", "g", "h", ".", " ", "V", "e", "r", "d", "i", "c", "t", ":", " ", "P", "A", "S", "S", " ", "W", "I", "T", "H", " ", "C", "O", "N", "C", "E", "R", "N", "S" >>,
      \* "critical gap"
      << "c", "r", "i", "t", "i", "c", "a", "l", " ", "g", "a", "p" >>
    >>

UpperCase == << "A", "B", "C", "D", "E", "F", "G", "H", "I", "J", "K", "L", "M",
               "N", "O", "P", "Q", "R", "S", "T", "U", "V", "W", "X", "Y", "Z" >>

LowerCase == << "a", "b", "c", "d", "e", "f", "g", "h", "i", "j", "k", "l", "m",
               "n", "o", "p", "q", "r", "s", "t", "u", "v", "w", "x", "y", "z" >>

\* str.lower()
\* the lower-case letter of every upper-case letter
ToLower ==
    [ c \in { UpperCase[i] : i \in 1..26 } |-> LowerCase[CHOOSE i \in 1..26 : UpperCase[i] = c] ]

LowerChar(c) == IF c \in DOMAIN ToLower THEN ToLower[c] ELSE c

Lower(text) == [ i \in 1..Len(text) |-> LowerChar(text[i]) ]

\* sub in text
Contains(text, sub) ==
    \/ sub = << >>
    \/ \E i \in 1..(Len(text) - Len(sub) + 1) :
          text[i] = sub[1] /\ SubSeq(text, i, i + Len(sub) - 1) = sub

\* mutant: what follows the first occurrence of sub
AfterLast_first(text, sub) ==
    LET at == { i \in 1..(Len(text) - Len(sub) + 1) : SubSeq(text, i, i + Len(sub) - 1) = sub }
        first == CHOOSE i \in at : \A j \in at : i <= j
    IN  SubSeq(text, first + Len(sub), Len(text))

\* text.split(sub)[-1], for a sub that occurs in text and cannot overlap itself
AfterLast(text, sub) ==
    LET at == { i \in 1..(Len(text) - Len(sub) + 1) : SubSeq(text, i, i + Len(sub) - 1) = sub }
        last == CHOOSE i \in at : \A j \in at : j <= i
    IN  SubSeq(text, last + Len(sub), Len(text))

\* text[:n]
Prefix(text, n) == SubSeq(text, 1, IF Len(text) < n THEN Len(text) ELSE n)

\* the characters of a review string
CharsOf(text) == IF text = << >> THEN << >> ELSE ReviewTexts[text[1].k]

\* the review string with the characters of ReviewTexts[k]
ReviewString(k) == Str("review", k, Len(ReviewTexts[k]))

(***************************************************************************)
(* cli.py: exit codes and the verdict of a review text.                    *)
(***************************************************************************)
EXIT_SUCCESS == 0
EXIT_HIGH_RISK == 1
EXIT_MEDIUM_RISK == 2
EXIT_ERROR == 3

\* mutant: a verdict with concerns reported with the reserved code
CliExtractVerdict_mediumRisk(review_text, strict) ==
    LET text_lower == Lower(review_text)
        has_high_impact ==
            \/ Contains(text_lower, << "i", "m", "p", "a", "c", "t", ":", " ", "h", "i", "g", "h" >>)
            \/ Contains(text_lower, << "i", "m", "p", "a", "c", "t", " ", "h", "i", "g", "h" >>)
        verdict_word == << "v", "e", "r", "d", "i", "c", "t" >>
        after_verdict == Prefix(AfterLast(text_lower, verdict_word), 50)
        critical_terms ==
            { << "c", "r", "i", "t", "i", "c", "a", "l" >>,
              << "s", "e", "v", "e", "r", "e" >>,
              << "m", "a", "j", "o", "r", " ", "v", "u", "l", "n", "e", "r", "a", "b", "i", "l", "i", "t", "y" >> }
        Code(verdict) == IF verdict = "FAIL" THEN EXIT_HIGH_RISK ELSE EXIT_MEDIUM_RISK
    IN  IF Contains(text_lower, verdict_word)
        THEN IF Contains(after_verdict, << "f", "a", "i", "l" >>)
             THEN << "FAIL", EXIT_HIGH_RISK >>
             ELSE IF Contains(after_verdict,
                              << "p", "a", "s", "s", " ", "w", "i", "t", "h", " ",
                                 "c", "o", "n", "c", "e", "r", "n", "s" >>)
             THEN LET verdict == IF strict /\ has_high_impact THEN "FAIL" ELSE "PASS WITH CONCERNS"
                  IN  << verdict, Code(verdict) >>
             ELSE << "PASS", EXIT_SUCCESS >>
        ELSE IF \E term \in critical_terms : Contains(text_lower, term)
             THEN << "FAIL", EXIT_HIGH_RISK >>
             ELSE IF has_high_impact
             THEN LET verdict == IF strict THEN "FAIL" ELSE "PASS WITH CONCERNS"
                  IN  << verdict, Code(verdict) >>
             ELSE << "PASS", EXIT_SUCCESS >>

\* cli.py lines 76-99: _extract_verdict(review_text, strict)
CliExtractVerdict(review_text, strict) ==
    LET text_lower == Lower(review_text)
        has_high_impact ==
            \/ Contains(text_lower, << "i", "m", "p", "a", "c", "t", ":", " ", "h", "i", "g", "h" >>)
            \/ Contains(text_lower, << "i", "m", "p", "a", "c", "t", " ", "h", "i", "g", "h" >>)
        verdict_word == << "v", "e", "r", "d", "i", "c", "t" >>
        after_verdict == Prefix(AfterLast(text_lower, verdict_word), 50)
        critical_terms ==
            { << "c", "r", "i", "t", "i", "c", "a", "l" >>,
              << "s", "e", "v", "e", "r", "e" >>,
              << "m", "a", "j", "o", "r", " ", "v", "u", "l", "n", "e", "r", "a", "b", "i", "l", "i", "t", "y" >> }
        Code(verdict) == IF verdict = "FAIL" THEN EXIT_HIGH_RISK ELSE EXIT_SUCCESS
    IN  IF Contains(text_lower, verdict_word)
        THEN IF Contains(after_verdict, << "f", "a", "i", "l" >>)
             THEN << "FAIL", EXIT_HIGH_RISK >>
             ELSE IF Contains(after_verdict,
                              << "p", "a", "s", "s", " ", "w", "i", "t", "h", " ",
                                 "c", "o", "n", "c", "e", "r", "n", "s" >>)
             THEN LET verdict == IF strict /\ has_high_impact THEN "FAIL" ELSE "PASS WITH CONCERNS"
                  IN  << verdict, Code(verdict) >>
             ELSE << "PASS", EXIT_SUCCESS >>
        ELSE IF \E term \in critical_terms : Contains(text_lower, term)
             THEN << "FAIL", EXIT_HIGH_RISK >>
             ELSE IF has_high_impact
             THEN LET verdict == IF strict THEN "FAIL" ELSE "PASS WITH CONCERNS"
                  IN  << verdict, Code(verdict) >>
             ELSE << "PASS", EXIT_SUCCESS >>

(***************************************************************************)
(* The output directory: the files review.md, state.json and               *)
(* remediation-notes.md, and the history directories.  A file is absent or *)
(* holds a document: a kind and the strings it was written from.           *)
(***************************************************************************)
DEFAULT_REVIEW_FILE == "review.md"
DEFAULT_STATE_FILE == "state.json"
DEFAULT_REMEDIATION_FILE == "remediation-notes.md"

FileNames == { DEFAULT_REVIEW_FILE, DEFAULT_STATE_FILE, DEFAULT_REMEDIATION_FILE }

File(kind, parts) == [kind |-> kind, parts |-> parts]

Absent == File("absent", << >>)

\* Path.write_text(text)
TextFile(text) == File("text", << text >>)

\* state.py lines 55-74 and 35-36: extract_state_from_review(result).save(path);
\* the saved state is a function of these entries of the result
StateFile(res) ==
    File("ReviewState",
         << res.review, res.gaps, res.risks, res.requirements_summary, res.architecture_summary >>)

\* the files a previous review (and remediation) left behind
PreviousFiles ==
    [ n \in FileNames |->
        File("text", << Str("previous " \o n, 0, 100) >>) ]

NoFiles == [ n \in FileNames |-> Absent ]

\* a literal string of the source, with its length
Lit(text, n) == Str(text, 0, n)

(***************************************************************************)
(* State.                                                                  *)
(***************************************************************************)
VARIABLES
    \* ---- context_condenser.py: one call of _extract / _chunked_extract
    cpc,            \* position: "idle", "extract", "chunked", "returned", "raised"
    fn,             \* the function that was called
    content,        \* argument content
    system_prompt,  \* argument system_prompt (the extraction instructions)
    chunks,         \* local chunks of _chunked_extract
    chunk_results,  \* local chunk_results of _chunked_extract
    ret,            \* the returned string, once cpc = "returned"
    exc,            \* the raised exception, once cpc = "raised"
    calls,          \* history: the Agent calls made by this condenser call
    round,          \* history: how many times the harness applied the condenser
    \* ---- cli.py: one run of the review command
    pc,             \* position of the command ("none": no command is running)
    should_archive, \* arguments of _run_review_mode
    json_output,
    no_state,
    ci_mode,
    strict,
    skip_policy_check,
    files,          \* the output directory: file name -> file
    archived,       \* the history directories, oldest first
    exit_code,      \* the status the process exited with (-1: still running)
    error,          \* the exception on its way to the except clause of the command
    files0,         \* history: the output directory when the command started
    \* ---- orchestrator.py: the ReviewOrchestrator and its run_review
    policy_engine_id,
    agents,         \* the agents the orchestrator has created (its *_agent attributes)
    captured_output,
    locals,         \* the local variables of run_review
    result,         \* << >>, or << the dict run_review returned >>
    trace,          \* history: the agent and condenser calls of run_review, in order
    \* ---- cli.py, state.py: one call of a function of strings
    func,           \* the function that is called ("": none)
    arguments,      \* its arguments
    value           \* << >>, or << what the call returned >>

cvars == << cpc, fn, content, system_prompt, chunks, chunk_results, ret, exc,
            calls, round >>

flags == << should_archive, json_output, no_state, ci_mode, strict, skip_policy_check >>

ovars == << pc, flags, files, archived, exit_code, error, files0,
            policy_engine_id, agents, captured_output, locals, result, trace >>

pvars == << func, arguments, value >>

vars == << cvars, ovars, pvars >>

(***************************************************************************)
(* The model-call primitive: Agent(name=..., system_prompt=...)(input).    *)
(* A call either returns a response string or raises.                      *)
(***************************************************************************)
\* lengths of the responses a model may give: one under the threshold, such
\* that two of them joined exceed it, and one over the threshold
ResponseLens == { PASSTHROUGH_THRESHOLD \div 2, PASSTHROUGH_THRESHOLD + 500 }

Responses == { Str("response", n, n) : n \in ResponseLens }

\* exceptions a per-chunk or merge call is made to raise: one size-related,
\* one not
FallbackErrors == { ContextWindowOverflowException, Exc("RuntimeError", "") }

\* a system prompt: its fixed text and the phase name formatted into it
Prompt(template, phase_name) == [template |-> template, phase_name |-> phase_name]

\* lines 45-48
MERGE_PROMPT ==
    Prompt("Merge these extracted findings into a single deduplicated list.", "")

\* lines 90-98
REQUIREMENTS_PROMPT ==
    Prompt("Extract every requirement, constraint, and non-functional requirement as bullet points.", "")

\* lines 111-130
ARCHITECTURE_PROMPT ==
    Prompt("Extract the structured findings from this architecture analysis.", "")

\* lines 142-163
PhasePrompt(phase_name) ==
    Prompt("Extract every finding from this {phase_name} output as categorized bullet points.",
           phase_name)

\* the instructions the tests hand to _extract and _chunked_extract
TEST_PROMPT == Prompt("prompt", "")

Call(name, prompt, input, ok, out, e) ==
    [name |-> name, system_prompt |-> prompt, input |-> input,
     ok |-> ok, out |-> out, exc |-> e]

Returned(name, prompt, input, out) == Call(name, prompt, input, TRUE, out, NoExc)

Raised(name, prompt, input, e) == Call(name, prompt, input, FALSE, << >>, e)

(***************************************************************************)
(* context_condenser.py                                                    *)
(***************************************************************************)
\* mutant: the boundary taken as exclusive
Passes_exclusive(text) == StrLen(text) < PASSTHROUGH_THRESHOLD

\* line 60: len(content) <= PASSTHROUGH_THRESHOLD
Passes(text) == StrLen(text) <= PASSTHROUGH_THRESHOLD

\* mutant: the ClientError clause of lines 74-79 missing
IsSizeRelated_strandsOnly(e) ==
    e.cls \in { "ContextWindowOverflowException", "MaxTokensReachedException" }

\* mutant: every ClientError routed to the fallback, whatever its code
IsSizeRelated_anyClientError(e) ==
    e.cls \in { "ContextWindowOverflowException", "MaxTokensReachedException", "ClientError" }

\* lines 72-79: the except clauses of _extract that route to the fallback
IsSizeRelated(e) ==
    \/ e.cls \in { "ContextWindowOverflowException", "MaxTokensReachedException" }
    \/ e.cls = "ClientError" /\ e.code \in { "ValidationException", "ModelErrorException" }

\* line 22: [content[i : i + CHUNK_SIZE] for i in range(0, len(content), CHUNK_SIZE)]
NumChunks(text) == (StrLen(text) + CHUNK_SIZE - 1) \div CHUNK_SIZE

\* mutant: each chunk runs one character into the next
SplitChunks_overlapping(text) ==
    [ i \in 1..NumChunks(text) |-> Slice(text, (i - 1) * CHUNK_SIZE, i * CHUNK_SIZE + 1) ]

SplitChunks(text) ==
    [ i \in 1..NumChunks(text) |-> Slice(text, (i - 1) * CHUNK_SIZE, i * CHUNK_SIZE) ]

\* mutant: the cap of line 25 missing
Capped_uncapped(list) == list

\* line 25: chunks[:MAX_CHUNKS]
Capped(list) == SubSeq(list, 1, IF Len(list) < MAX_CHUNKS THEN Len(list) ELSE MAX_CHUNKS)

\* line 38: "\n\n".join(chunk_results)
Combined(results) == Join(NewLines, results)

\* _chunked_extract is entered: line 22, line 24
EnterChunked(text) ==
    /\ cpc' = "chunked"
    /\ chunks' = SplitChunks(text)
    /\ chunk_results' = << >>

\* _extract(text, prompt, model_id) is entered (line 58)
EnterExtract(text, prompt) ==
    /\ cpc' = "extract"
    /\ content' = text
    /\ system_prompt' = prompt
    /\ chunks' = << >>
    /\ chunk_results' = << >>
    /\ ret' = << >>
    /\ calls' = << >>

\* lines 82-165: the instructions each public function hands to _extract
WrapperPrompt(f, phase_name) ==
    CASE f = "extract_requirements" -> REQUIREMENTS_PROMPT
      [] f = "extract_architecture_findings" -> ARCHITECTURE_PROMPT
      [] f = "extract_phase_findings" -> PhasePrompt(phase_name)
      [] OTHER -> TEST_PROMPT

\* lines 60-61
ExtractPassthrough ==
    /\ cpc = "extract"
    /\ Passes(content)
    /\ cpc' = "returned"
    /\ ret' = content
    /\ UNCHANGED << fn, content, system_prompt, chunks, chunk_results, exc, calls, round >>

\* mutant: the extractor given a hard slice of the content
ExtractSinglePass_sliced ==
    /\ cpc = "extract"
    /\ ~Passes(content)
    /\ \E r \in Responses :
         /\ calls' = Append(calls, Returned("FindingsExtractor", system_prompt,
                                             Take(content, PASSTHROUGH_THRESHOLD), r))
         /\ ret' = r
    /\ cpc' = "returned"
    /\ UNCHANGED << fn, content, system_prompt, chunks, chunk_results, exc, round >>

\* lines 63-71, the call returning
ExtractSinglePass ==
    /\ cpc = "extract"
    /\ ~Passes(content)
    /\ \E r \in Responses :
         /\ calls' = Append(calls, Returned("FindingsExtractor", system_prompt, content, r))
         /\ ret' = r
    /\ cpc' = "returned"
    /\ UNCHANGED << fn, content, system_prompt, chunks, chunk_results, exc, round >>

\* lines 63-73 and 74-78, the call raising a size-related error
ExtractFallback ==
    /\ cpc = "extract"
    /\ ~Passes(content)
    /\ \E e \in SizeErrors \cup OtherErrors :
         /\ IsSizeRelated(e)
         /\ calls' = Append(calls, Raised("FindingsExtractor", system_prompt, content, e))
    /\ EnterChunked(content)
    /\ UNCHANGED << fn, content, system_prompt, ret, exc, round >>

\* lines 63-71 and 74-79, the call raising anything else
ExtractReraise ==
    /\ cpc = "extract"
    /\ ~Passes(content)
    /\ \E e \in SizeErrors \cup OtherErrors :
         /\ ~IsSizeRelated(e)
         /\ calls' = Append(calls, Raised("FindingsExtractor", system_prompt, content, e))
         /\ exc' = e
    /\ cpc' = "raised"
    /\ UNCHANGED << fn, content, system_prompt, chunks, chunk_results, ret, round >>

\* the loop of lines 25-35 has a chunk left
ChunkPending == cpc = "chunked" /\ Len(chunk_results) < Len(Capped(chunks))

\* lines 26-33, the chunk's call returning
ChunkExtracted ==
    /\ ChunkPending
    /\ LET i == Len(chunk_results) + 1 IN
       \E r \in Responses :
         /\ calls' = Append(calls, Returned("ChunkExtractor", system_prompt, Capped(chunks)[i], r))
         /\ chunk_results' = Append(chunk_results, r)
    /\ UNCHANGED << cpc, fn, content, system_prompt, chunks, ret, exc, round >>

\* mutant: only size-related errors of a chunk's call are replaced by the
\* placeholder, any other error is raised
ChunkFailed_sizeOnly ==
    /\ ChunkPending
    /\ LET i == Len(chunk_results) + 1 IN
       \E e \in FallbackErrors :
         /\ calls' = Append(calls, Raised("ChunkExtractor", system_prompt, Capped(chunks)[i], e))
         /\ IF IsSizeRelated(e)
            THEN /\ chunk_results' = Append(chunk_results, Placeholder(i))
                 /\ UNCHANGED << cpc, exc >>
            ELSE /\ cpc' = "raised"
                 /\ exc' = e
                 /\ UNCHANGED chunk_results
    /\ UNCHANGED << fn, content, system_prompt, chunks, ret, round >>

\* lines 26-35, the chunk's call raising
ChunkFailed ==
    /\ ChunkPending
    /\ LET i == Len(chunk_results) + 1 IN
       \E e \in FallbackErrors :
         /\ calls' = Append(calls, Raised("ChunkExtractor", system_prompt, Capped(chunks)[i], e))
         /\ chunk_results' = Append(chunk_results, Placeholder(i))
    /\ UNCHANGED << cpc, fn, content, system_prompt, chunks, ret, exc, round >>

\* the loop is over
ChunksDone == cpc = "chunked" /\ Len(chunk_results) = Len(Capped(chunks))

\* lines 38-40
MergeSkipped ==
    /\ ChunksDone
    /\ Passes(Combined(chunk_results))
    /\ cpc' = "returned"
    /\ ret' = Combined(chunk_results)
    /\ UNCHANGED << fn, content, system_prompt, chunks, chunk_results, exc, calls, round >>

\* lines 42-52, the merge call returning
Merged ==
    /\ ChunksDone
    /\ ~Passes(Combined(chunk_results))
    /\ \E r \in Responses :
         /\ calls' = Append(calls, Returned("FindingsMerger", MERGE_PROMPT, Combined(chunk_results), r))
         /\ ret' = r
    /\ cpc' = "returned"
    /\ UNCHANGED << fn, content, system_prompt, chunks, chunk_results, exc, round >>

\* mutant: the error of the merge call is raised
MergeFailed_raises ==
    /\ ChunksDone
    /\ ~Passes(Combined(chunk_results))
    /\ \E e \in FallbackErrors :
         /\ calls' = Append(calls, Raised("FindingsMerger", MERGE_PROMPT, Combined(chunk_results), e))
         /\ exc' = e
    /\ cpc' = "raised"
    /\ UNCHANGED << fn, content, system_prompt, chunks, chunk_results, ret, round >>

\* lines 42-55, the merge call raising
MergeFailed ==
    /\ ChunksDone
    /\ ~Passes(Combined(chunk_results))
    /\ \E e \in FallbackErrors :
         calls' = Append(calls, Raised("FindingsMerger", MERGE_PROMPT, Combined(chunk_results), e))
    /\ ret' = Combined(chunk_results)
    /\ cpc' = "returned"
    /\ UNCHANGED << fn, content, system_prompt, chunks, chunk_results, exc, round >>

\* a step of the running condenser call; nothing of the caller changes
Condenser ==
    /\ \/ ExtractPassthrough
       \/ ExtractSinglePass
       \/ ExtractFallback
       \/ ExtractReraise
       \/ ChunkExtracted
       \/ ChunkFailed
       \/ MergeSkipped
       \/ Merged
       \/ MergeFailed
    /\ UNCHANGED << ovars, pvars >>

(***************************************************************************)
(* The condenser on its own: every input, both entry points, and the       *)
(* condenser applied again to its own result.                              *)
(***************************************************************************)
\* how many times the condenser is applied to its own result
MaxReapply == 1

InputLens ==
    { 0, PASSTHROUGH_THRESHOLD - 1, PASSTHROUGH_THRESHOLD, PASSTHROUGH_THRESHOLD + 1 }
    \cup { k * CHUNK_SIZE + d : k \in 1..(MAX_CHUNKS + MaxExtraChunks), d \in {0, 1} }

Inputs == { Str("document", 0, n) : n \in InputLens }

\* run_review's locals before it has assigned them
NoLocals ==
    [ req_summary |-> << >>, req_findings |-> << >>,
      arch_summary |-> << >>, arch_findings |-> << >>,
      qa_context |-> << >>, qa_findings |-> << >>,
      sparring_context |-> << >>, sparring_findings |-> << >>,
      review_text |-> << >> ]

\* no review command is running
NoCommand ==
    /\ pc = "none"
    /\ should_archive = FALSE
    /\ json_output = FALSE
    /\ no_state = FALSE
    /\ ci_mode = FALSE
    /\ strict = FALSE
    /\ skip_policy_check = FALSE
    /\ files = NoFiles
    /\ archived = << >>
    /\ exit_code = -1
    /\ error = NoExc
    /\ files0 = NoFiles
    /\ policy_engine_id = ""
    /\ agents = {}
    /\ captured_output = << >>
    /\ locals = NoLocals
    /\ result = << >>
    /\ trace = << >>

\* no function call is under way
NoCall ==
    /\ func = ""
    /\ arguments = << >>
    /\ value = << >>

EntryPoints ==
    { "extract_requirements", "extract_architecture_findings", "extract_phase_findings",
      "_chunked_extract" }

InitCondense ==
    /\ fn \in EntryPoints
    /\ content \in Inputs
    /\ system_prompt = WrapperPrompt(fn, "Q&A")
    /\ cpc = IF fn = "_chunked_extract" THEN "chunked" ELSE "extract"
    /\ chunks = IF fn = "_chunked_extract" THEN SplitChunks(content) ELSE << >>
    /\ chunk_results = << >>
    /\ ret = << >>
    /\ exc = NoExc
    /\ calls = << >>
    /\ round = 0
    /\ NoCommand
    /\ NoCall

\* the public function applied to its own result
Reapply ==
    /\ cpc = "returned"
    /\ fn # "_chunked_extract"
    /\ round < MaxReapply
    /\ round' = round + 1
    /\ EnterExtract(ret, system_prompt)
    /\ UNCHANGED << fn, exc >>
    /\ UNCHANGED << ovars, pvars >>

NextCondense == Condenser \/ Reapply

SpecCondense == InitCondense /\ [][NextCondense]_vars


(***************************************************************************)
(* orchestrator.py: ReviewOrchestrator.run_review.  The phase agents are   *)
(* opaque: a call returns a string or raises.                              *)
(***************************************************************************)
Phases == << "Requirements", "Architecture", "Questions", "Sparring", "Review" >>

\* lengths of the raw output of a phase agent: within the threshold and over it
AgentLens == { PASSTHROUGH_THRESHOLD, PASSTHROUGH_THRESHOLD + 1 }

\* what a phase agent may return
AgentOutputs(phase) ==
    IF phase = "Review"
    THEN { ReviewString(k) : k \in 1..Len(ReviewTexts) }
    ELSE { Str(phase, 0, n) : n \in AgentLens }

\* at most this many of a run's raw phase outputs exceed the threshold
MaxOversize == 1

\* the raw phase outputs of the run so far that exceed the threshold
Oversize(loc) ==
    Cardinality({ f \in { "req_summary", "arch_summary", "qa_context", "sparring_context" } :
                    ~Passes(loc[f]) })

\* the raw outputs the phase's agent may return after the locals loc
RawOutputs(phase, loc) ==
    { raw \in AgentOutputs(phase) : Passes(raw) \/ Oversize(loc) < MaxOversize }

\* what a phase agent may raise
AgentErrors == { ClientError("ThrottlingException"), ContextWindowOverflowException }

Event(kind, phase, args, ok, out, e) ==
    [kind |-> kind, phase |-> phase, args |-> args, ok |-> ok, out |-> out, exc |-> e]

\* the phase's agent was called with args and returned out
AgentReturned(phase, args, out) == Event("agent", phase, args, TRUE, out, NoExc)

\* the phase's agent was called with args and raised e
AgentRaised(phase, args, e) == Event("agent", phase, args, FALSE, << >>, e)

\* the condenser was called on the phase's raw output
CondenseCalled(phase, raw) == Event("condense", phase, << raw >>, TRUE, << >>, NoExc)

\* the condenser call on raw returned out to run_review
CondenseReturned(phase, raw, out) == Event("condensed", phase, << raw >>, TRUE, out, NoExc)

\* line 92-95: _capture(content)
Capture(out, text) == Append(out, text)

\* lines 220-222: "\n".join(self.captured_output)
FullSession(out) == Join(Lit("\n", 1), out)

\* lines 99-107
SessionHeader(ci) ==
    << Lit("============================================================", 60),
       IF ci THEN Lit("ARCHITECTURE REVIEW SESSION (CI/CD MODE)", 40)
             ELSE Lit("ARCHITECTURE REVIEW SESSION (INTERACTIVE MODE)", 46),
       Lit("============================================================\n", 61),
       Lit("## Phase 1: Requirements Analysis\n", 34) >>

\* lines 108-113 (the interactive prompt counts its line breaks and indentation)
ReqPrompt(ci) ==
    IF ci
    THEN Lit("Analyze documents. List key requirements in bullet points. Max 20 lines.", 72)
    ELSE Lit("Analyze all documents. Summarize requirements and constraints. Keep it under 600 words.", 113)

\* lines 123-149
ArchPrompt(ci, req_findings) ==
    IF ci
    THEN Lit("Analyze templates/diagrams/source code.\n\nREQUIREMENTS TO VERIFY:\n", 65)
         \o req_findings
         \o Lit("\n\nTasks:\n1. List infrastructure components ... [searched but no evidence]", 419)
    ELSE Lit("Analyze all templates, diagrams, and source code.\n\nREQUIREMENTS:\n", 65)
         \o req_findings
         \o Lit("\n\nSummarize architecture, patterns, and verify which requirements have implementations.", 87)

\* mutant: the Questions phase given the raw outputs of the phases before it
QuestionsArgs_raw(loc) == << loc.req_summary, loc.arch_summary >>

\* lines 161, 163: the arguments of run_ci_questions / run_questions
QuestionsArgs(loc) == << loc.req_findings, loc.arch_findings >>

\* lines 173-179: the arguments of run_ci_sparring / run_sparring
SparringArgs(loc) == << loc.req_findings, loc.arch_findings, loc.qa_findings >>

\* lines 189-195: the arguments of generate_ci_review / generate_review
ReviewArgs(loc) ==
    << loc.req_findings, loc.arch_findings, loc.qa_findings, loc.sparring_findings >>

\* mutant: the record keeping the condensed findings in place of the raw outputs
ResultDict_condensedOnly(loc, out, ci) ==
    [ review |-> loc.review_text,
      full_session |-> FullSession(out),
      requirements_summary |-> loc.req_findings,
      requirements_findings |-> loc.req_findings,
      architecture_summary |-> loc.arch_findings,
      architecture_findings |-> loc.arch_findings,
      gaps |-> loc.qa_findings,
      gaps_findings |-> loc.qa_findings,
      risks |-> loc.sparring_findings,
      risks_findings |-> loc.sparring_findings,
      ci_mode |-> ci,
      agents_used |-> << "RequirementsAnalyst", "ArchitectureEvaluator", "QuestionAgent",
                         "SparringAgent", "ReviewAgent" >> ]

\* lines 199-218
ResultDict(loc, out, ci) ==
    [ review |-> loc.review_text,
      full_session |-> FullSession(out),
      requirements_summary |-> loc.req_summary,
      requirements_findings |-> loc.req_findings,
      architecture_summary |-> loc.arch_summary,
      architecture_findings |-> loc.arch_findings,
      gaps |-> loc.qa_context,
      gaps_findings |-> loc.qa_findings,
      risks |-> loc.sparring_context,
      risks_findings |-> loc.sparring_findings,
      ci_mode |-> ci,
      agents_used |-> << "RequirementsAnalyst", "ArchitectureEvaluator", "QuestionAgent",
                         "SparringAgent", "ReviewAgent" >> ]

\* what no step of run_review changes
Frame == UNCHANGED << flags, files, archived, exit_code, files0, policy_engine_id, agents, pvars >>

\* no condenser call is running: the frame of the last one is gone
NoCondenserCall ==
    /\ cpc' = "idle"
    /\ fn' = ""
    /\ content' = << >>
    /\ system_prompt' = TEST_PROMPT
    /\ chunks' = << >>
    /\ chunk_results' = << >>
    /\ ret' = << >>
    /\ calls' = << >>
    /\ UNCHANGED << exc, round >>

\* mutant: the exception of a phase agent wrapped in another one
PhaseRaises_wrapped(phase, args, loc, out, tr) ==
    /\ \E e \in AgentErrors :
         /\ error' = Exc("RuntimeError", phase)
         /\ trace' = Append(tr, AgentRaised(phase, args, e))
    /\ pc' = "except"
    /\ locals' = loc
    /\ captured_output' = out
    /\ NoCondenserCall
    /\ UNCHANGED result
    /\ Frame

\* the agent call of a phase raises: the exception leaves run_review
\* (loc, out, tr: the locals, the captured output and the trace so far)
PhaseRaises(phase, args, loc, out, tr) ==
    /\ \E e \in AgentErrors :
         /\ error' = e
         /\ trace' = Append(tr, AgentRaised(phase, args, e))
    /\ pc' = "except"
    /\ locals' = loc
    /\ captured_output' = out
    /\ NoCondenserCall
    /\ UNCHANGED result
    /\ Frame

\* run_review hands raw to the public condenser function f
Condense(f, phase_name, raw) ==
    /\ EnterExtract(raw, WrapperPrompt(f, phase_name))
    /\ fn' = f
    /\ UNCHANGED << exc, round >>

\* mutant: a phase entered when any condenser call has returned
Resumes_anyPhase(at) ==
    /\ cpc = "returned"
    /\ pc \in { "Requirements", "Architecture", "Questions", "Sparring" }

\* the condenser call of the phase before `at` has returned to run_review
Resumes(at) == pc = at /\ cpc = "returned"

\* lines 99-119: Phase 1 and the call of extract_requirements
RunRequirements ==
    /\ pc = "run"
    /\ LET out  == SessionHeader(ci_mode)
           args == << ReqPrompt(ci_mode) >>
       IN  \/ PhaseRaises("Requirements", args, locals, out, trace)
           \/ \E raw \in RawOutputs("Requirements", locals) :
                /\ locals' = [locals EXCEPT !.req_summary = raw]
                /\ captured_output' = Capture(out, raw)
                /\ Condense("extract_requirements", "", raw)
                /\ trace' = trace \o << AgentReturned("Requirements", args, raw),
                                        CondenseCalled("Requirements", raw) >>
                /\ pc' = "Requirements"
                /\ UNCHANGED << error, result >>
                /\ Frame

\* lines 119-155: req_findings is assigned, Phase 2 and the call of
\* extract_architecture_findings
RunArchitecture ==
    /\ Resumes("Requirements")
    /\ LET loc  == [locals EXCEPT !.req_findings = ret]
           out  == Capture(captured_output, Lit("\n## Phase 2: Architecture Analysis\n", 35))
           args == << ArchPrompt(ci_mode, loc.req_findings) >>
           tr   == Append(trace, CondenseReturned("Requirements", content, ret))
       IN  \/ PhaseRaises("Architecture", args, loc, out, tr)
           \/ \E raw \in RawOutputs("Architecture", loc) :
                /\ locals' = [loc EXCEPT !.arch_summary = raw]
                /\ captured_output' = Capture(out, raw)
                /\ Condense("extract_architecture_findings", "", raw)
                /\ trace' = tr \o << AgentReturned("Architecture", args, raw),
                                     CondenseCalled("Architecture", raw) >>
                /\ pc' = "Architecture"
                /\ UNCHANGED << error, result >>
                /\ Frame

\* lines 155-167: arch_findings is assigned, Phase 3 and the call of
\* extract_phase_findings(qa_context, "Q&A", ...)
RunQuestions ==
    /\ Resumes("Architecture")
    /\ LET loc  == [locals EXCEPT !.arch_findings = ret]
           out  == Capture(captured_output,
                           IF ci_mode THEN Lit("\n## Phase 3: Identified Gaps\n", 29)
                                      ELSE Lit("\n## Phase 3: Clarifying Questions\n", 34))
           args == QuestionsArgs(loc)
           tr   == Append(trace, CondenseReturned("Architecture", content, ret))
       IN  \/ PhaseRaises("Questions", args, loc, out, tr)
           \/ \E raw \in RawOutputs("Questions", loc) :
                /\ locals' = [loc EXCEPT !.qa_context = raw]
                /\ captured_output' =
                       IF ci_mode THEN out ELSE Capture(out, Lit("\n", 1) \o raw)
                /\ Condense("extract_phase_findings", "Q&A", raw)
                /\ trace' = tr \o << AgentReturned("Questions", args, raw),
                                     CondenseCalled("Questions", raw) >>
                /\ pc' = "Questions"
                /\ UNCHANGED << error, result >>
                /\ Frame

\* lines 167-183: qa_findings is assigned, Phase 4 and the call of
\* extract_phase_findings(sparring_context, "Sparring", ...)
RunSparring ==
    /\ Resumes("Questions")
    /\ LET loc  == [locals EXCEPT !.qa_findings = ret]
           out  == Capture(captured_output,
                           IF ci_mode THEN Lit("\n## Phase 4: Risk Analysis\n", 27)
                                      ELSE Lit("\n## Phase 4: Architecture Sparring\n", 35))
           args == SparringArgs(loc)
           tr   == Append(trace, CondenseReturned("Questions", content, ret))
       IN  \/ PhaseRaises("Sparring", args, loc, out, tr)
           \/ \E raw \in RawOutputs("Sparring", loc) :
                /\ locals' = [loc EXCEPT !.sparring_context = raw]
                /\ captured_output' =
                       IF ci_mode THEN out ELSE Capture(out, Lit("\n", 1) \o raw)
                /\ Condense("extract_phase_findings", "Sparring", raw)
                /\ trace' = tr \o << AgentReturned("Sparring", args, raw),
                                     CondenseCalled("Sparring", raw) >>
                /\ pc' = "Sparring"
                /\ UNCHANGED << error, result >>
                /\ Frame

\* lines 183-218: sparring_findings is assigned, Phase 5 and the return
RunFinalReview ==
    /\ Resumes("Sparring")
    /\ LET loc  == [locals EXCEPT !.sparring_findings = ret]
           out  == captured_output
                   \o << Lit("\n## Phase 5: Final Review\n", 26),
                         Lit("============================================================", 60) >>
           args == ReviewArgs(loc)
           tr   == Append(trace, CondenseReturned("Sparring", content, ret))
       IN  \/ PhaseRaises("Review", args, loc, out, tr)
           \/ \E review \in AgentOutputs("Review") :
                LET done == [loc EXCEPT !.review_text = review]
                    all  == out \o << review,
                                      Lit("============================================================", 60) >>
                IN  /\ locals' = done
                    /\ captured_output' = all
                    /\ result' = << ResultDict(done, all, ci_mode) >>
                    /\ trace' = Append(tr, AgentReturned("Review", args, review))
                    /\ pc' = "returned"
                    /\ NoCondenserCall
                    /\ UNCHANGED error
                    /\ Frame

\* an exception raised by extract_requirements, extract_architecture_findings
\* or extract_phase_findings (lines 119, 155, 167, 183) leaves run_review
CondenserRaises ==
    /\ pc \in { "Requirements", "Architecture", "Questions", "Sparring" }
    /\ cpc = "raised"
    /\ error' = exc
    /\ pc' = "except"
    /\ UNCHANGED << cvars, locals, captured_output, result, trace >>
    /\ Frame

RunReview ==
    \/ RunRequirements
    \/ RunArchitecture
    \/ RunQuestions
    \/ RunSparring
    \/ RunFinalReview
    \/ CondenserRaises

(***************************************************************************)
(* orchestrator.py lines 32-90: ReviewOrchestrator.__init__, called by     *)
(* cli.py lines 343-352.                                                   *)
(***************************************************************************)
\* line 53-54: check_model_access returns False
ConstructNoAccess ==
    /\ pc = "construct"
    /\ error' = Exc("RuntimeError", "Model not accessible.")
    /\ pc' = "except"
    /\ UNCHANGED << pvars, cvars, flags, files, archived, exit_code, files0, policy_engine_id, agents,
                    captured_output, locals, result, trace >>

\* lines 75-88: the attributes that hold the agents created by
\* create_requirements_agent, create_architecture_agent and, by ci_mode,
\* create_ci_question_agent or create_question_agent and so on
CreatedAgents ==
    { "requirements_agent", "architecture_agent", "question_agent", "sparring_agent",
      "review_agent" }

\* mutant: without an engine id the constructor warns and goes on, whatever
\* skip_policy_check is
ConstructNoPolicy_warnOnly ==
    /\ pc = "construct"
    /\ ~skip_policy_check
    /\ policy_engine_id' = ""
    /\ agents' = CreatedAgents
    /\ captured_output' = << >>
    /\ pc' = "run"
    /\ UNCHANGED << pvars, cvars, flags, files, archived, exit_code, error, files0,
                    locals, result, trace >>

\* lines 59-73: setup_architecture_review_policies yields no engine id and
\* skip_policy_check is not set
ConstructNoPolicy ==
    /\ pc = "construct"
    /\ ~skip_policy_check
    /\ policy_engine_id' = ""
    /\ error' = Exc("RuntimeError", "Policy Engine setup failed.")
    /\ pc' = "except"
    /\ UNCHANGED << pvars, cvars, flags, files, archived, exit_code, files0, agents,
                    captured_output, locals, result, trace >>

\* lines 43-90: the orchestrator is constructed
Constructed ==
    /\ pc = "construct"
    /\ \E id \in { "", "policy-engine-id" } :
         /\ id # "" \/ skip_policy_check
         /\ policy_engine_id' = id
    /\ agents' = CreatedAgents
    /\ captured_output' = << >>
    /\ pc' = "run"
    /\ UNCHANGED << pvars, cvars, flags, files, archived, exit_code, error, files0,
                    locals, result, trace >>

(***************************************************************************)
(* cli.py: _run_review_mode.                                               *)
(***************************************************************************)
\* lines 41-73: _archive_previous(output_dir); the directory after it
ArchivePrevious(dir) ==
    IF dir[DEFAULT_REVIEW_FILE] = Absent /\ dir[DEFAULT_STATE_FILE] = Absent
    THEN dir
    ELSE NoFiles

\* lines 336-340
StartReview ==
    /\ pc = "start"
    /\ files' = IF should_archive THEN ArchivePrevious(files) ELSE files
    /\ archived' = IF should_archive /\ ArchivePrevious(files) # files
                   THEN Append(archived, files)
                   ELSE archived
    /\ pc' = "construct"
    /\ UNCHANGED << pvars, cvars, flags, exit_code, error, files0, policy_engine_id, agents,
                    captured_output, locals, result, trace >>

\* line 355: the exit code of the returned review
ExitCodeOf(res) == CliExtractVerdict(CharsOf(res.review), strict)[2]

\* lines 355-368 and 388: --json
ReportJson ==
    /\ pc = "returned"
    /\ json_output
    /\ exit_code' = ExitCodeOf(result[1])
    /\ pc' = "exited"
    /\ UNCHANGED << pvars, cvars, flags, files, archived, error, files0, policy_engine_id, agents,
                    captured_output, locals, result, trace >>

\* lines 355 and 370-374: review.md is written, or write_text raises
SaveReview ==
    /\ pc = "returned"
    /\ ~json_output
    /\ \/ /\ files' = [files EXCEPT ![DEFAULT_REVIEW_FILE] = TextFile(result[1].full_session)]
          /\ pc' = "review saved"
          /\ UNCHANGED error
       \/ /\ error' = Exc("OSError", "")
          /\ pc' = "except"
          /\ UNCHANGED files
    /\ UNCHANGED << pvars, cvars, flags, archived, exit_code, files0, policy_engine_id, agents,
                    captured_output, locals, result, trace >>

\* lines 377-388: state.json is written unless --no-state, or save raises;
\* then sys.exit(exit_code)
SaveState ==
    /\ pc = "review saved"
    /\ \/ /\ no_state
          /\ UNCHANGED << files, error >>
          /\ exit_code' = ExitCodeOf(result[1])
          /\ pc' = "exited"
       \/ /\ ~no_state
          /\ files' = [files EXCEPT ![DEFAULT_STATE_FILE] = StateFile(result[1])]
          /\ UNCHANGED error
          /\ exit_code' = ExitCodeOf(result[1])
          /\ pc' = "exited"
       \/ /\ ~no_state
          /\ error' = Exc("OSError", "")
          /\ pc' = "except"
          /\ UNCHANGED << files, exit_code >>
    /\ UNCHANGED << pvars, cvars, flags, archived, files0, policy_engine_id, agents,
                    captured_output, locals, result, trace >>

\* mutant: the handler exits with the resolver's code when a review was
\* returned
ExceptExit_resolverCode ==
    /\ pc = "except"
    /\ exit_code' = IF result # << >> THEN ExitCodeOf(result[1]) ELSE EXIT_ERROR
    /\ pc' = "exited"
    /\ UNCHANGED << pvars, cvars, flags, files, archived, error, files0, policy_engine_id, agents,
                    captured_output, locals, result, trace >>

\* lines 392-397: except Exception
ExceptExit ==
    /\ pc = "except"
    /\ exit_code' = EXIT_ERROR
    /\ pc' = "exited"
    /\ UNCHANGED << pvars, cvars, flags, files, archived, error, files0, policy_engine_id, agents,
                    captured_output, locals, result, trace >>

(***************************************************************************)
(* The review command.                                                     *)
(***************************************************************************)
Init ==
    /\ pc = "start"
    /\ should_archive \in BOOLEAN
    /\ json_output \in BOOLEAN
    /\ no_state \in BOOLEAN
    /\ ci_mode \in BOOLEAN
    /\ json_output => ci_mode
    /\ strict \in BOOLEAN
    /\ skip_policy_check \in BOOLEAN
    /\ files \in { NoFiles, PreviousFiles }
    /\ files0 = files
    /\ archived = << >>
    /\ exit_code = -1
    /\ error = NoExc
    /\ policy_engine_id = ""
    /\ agents = {}
    /\ captured_output = << >>
    /\ locals = NoLocals
    /\ result = << >>
    /\ trace = << >>
    /\ cpc = "idle"
    /\ fn = ""
    /\ content = << >>
    /\ system_prompt = TEST_PROMPT
    /\ chunks = << >>
    /\ chunk_results = << >>
    /\ ret = << >>
    /\ exc = NoExc
    /\ calls = << >>
    /\ round = 0
    /\ NoCall

Next ==
    \/ StartReview
    \/ ConstructNoAccess
    \/ ConstructNoPolicy
    \/ Constructed
    \/ RunReview
    \/ Condenser
    \/ ReportJson
    \/ SaveReview
    \/ SaveState
    \/ ExceptExit

Spec == Init /\ [][Next]_vars

(***************************************************************************)
(* state.py: the verdict of a review text.                                 *)
(***************************************************************************)
\* mutant: "pass" looked for before "pass with concerns"
StateExtractVerdict_passFirst(review_text) ==
    LET review_lower == Lower(review_text)
        verdict_word == << "v", "e", "r", "d", "i", "c", "t" >>
        after_verdict == Prefix(AfterLast(review_lower, verdict_word), 100)
    IN  IF Contains(review_lower, verdict_word)
        THEN IF Contains(after_verdict, << "f", "a", "i", "l" >>) THEN "FAIL"
             ELSE IF Contains(after_verdict, << "p", "a", "s", "s" >>) THEN "PASS"
             ELSE IF Contains(after_verdict, << "p", "a", "s", "s", " ", "w", "i", "t", "h", " ", "c", "o", "n", "c", "e", "r", "n", "s" >>)
             THEN "PASS WITH CONCERNS"
             ELSE "UNKNOWN"
        ELSE "UNKNOWN"

\* mutant: the window of 50 characters of the Verdict Resolver
StateExtractVerdict_window50(review_text) ==
    LET review_lower == Lower(review_text)
        verdict_word == << "v", "e", "r", "d", "i", "c", "t" >>
        after_verdict == Prefix(AfterLast(review_lower, verdict_word), 50)
    IN  IF Contains(review_lower, verdict_word)
        THEN IF Contains(after_verdict, << "f", "a", "i", "l" >>) THEN "FAIL"
             ELSE IF Contains(after_verdict, << "p", "a", "s", "s", " ", "w", "i", "t", "h", " ", "c", "o", "n", "c", "e", "r", "n", "s" >>)
             THEN "PASS WITH CONCERNS"
             ELSE IF Contains(after_verdict, << "p", "a", "s", "s" >>) THEN "PASS"
             ELSE "UNKNOWN"
        ELSE "UNKNOWN"

\* state.py lines 196-209: _extract_verdict(review_text)
StateExtractVerdict(review_text) ==
    LET review_lower == Lower(review_text)
        verdict_word == << "v", "e", "r", "d", "i", "c", "t" >>
        after_verdict == Prefix(AfterLast(review_lower, verdict_word), 100)
    IN  IF Contains(review_lower, verdict_word)
        THEN IF Contains(after_verdict, << "f", "a", "i", "l" >>) THEN "FAIL"
             ELSE IF Contains(after_verdict, << "p", "a", "s", "s", " ", "w", "i", "t", "h", " ", "c", "o", "n", "c", "e", "r", "n", "s" >>)
             THEN "PASS WITH CONCERNS"
             ELSE IF Contains(after_verdict, << "p", "a", "s", "s" >>) THEN "PASS"
             ELSE "UNKNOWN"
        ELSE "UNKNOWN"

(***************************************************************************)
(* state.py: the parser of review texts (extract_state_from_review).       *)
(* Texts are sequences of characters.                                      *)
(***************************************************************************)
Digits == << "0", "1", "2", "3", "4", "5", "6", "7", "8", "9" >>

\* str.isdigit() of one character
IsDigit(c) == \E i \in 1..10 : Digits[i] = c

\* the characters str.strip() removes
Whitespace == { " ", "\t", "\r" }

RECURSIVE Decimal(_)
\* str(n) for n >= 0
Decimal(n) ==
    IF n < 10 THEN << Digits[n + 1] >>
    ELSE Decimal(n \div 10) \o << Digits[(n % 10) + 1] >>

RECURSIVE FirstKept(_, _, _)
\* the first position from i on whose character is not in chars
FirstKept(text, chars, i) ==
    IF i > Len(text) \/ text[i] \notin chars THEN i ELSE FirstKept(text, chars, i + 1)

RECURSIVE LastKept(_, _, _)
\* the last position up to i whose character is not in chars
LastKept(text, chars, i) ==
    IF i < 1 \/ text[i] \notin chars THEN i ELSE LastKept(text, chars, i - 1)

\* str.lstrip(chars)
LStrip(text, chars) == SubSeq(text, FirstKept(text, chars, 1), Len(text))

\* str.rstrip(chars)
RStrip(text, chars) == SubSeq(text, 1, LastKept(text, chars, Len(text)))

\* str.strip()
Strip(text) == RStrip(LStrip(text, Whitespace), Whitespace)

\* str.startswith(prefix)
StartsWith(text, prefix) ==
    Len(prefix) <= Len(text) /\ SubSeq(text, 1, Len(prefix)) = prefix

\* text.split("\n"): the pieces of text between its line breaks
SplitLines(text) ==
    LET breaks == { i \in 1..Len(text) : text[i] = "\n" }
        Break(k) == CHOOSE i \in breaks : Cardinality({ j \in breaks : j < i }) = k - 1
        n == Cardinality(breaks)
    IN  [ k \in 1..(n + 1) |->
            SubSeq(text,
                   IF k = 1 THEN 1 ELSE Break(k - 1) + 1,
                   IF k = n + 1 THEN Len(text) ELSE Break(k) - 1) ]

\* mutant: every str taken for non-empty
Truthy_always(text) == TRUE

\* the truth value of a str: whether it is non-empty
Truthy(text) == text # << >>

\* text[0], which raises IndexError on the empty str
FirstChar(text) == IF text = << >> THEN "IndexError" ELSE text[1]

\* mutant: the words of a low severity searched first
InferSeverity_lowFirst(text) ==
    LET text_lower == Lower(text) IN
    IF Contains(text_lower, << "l", "o", "w" >>) \/ Contains(text_lower, << "m", "i", "n", "o", "r" >>) THEN "low"
    ELSE IF Contains(text_lower, << "c", "r", "i", "t", "i", "c", "a", "l" >>) \/ Contains(text_lower, << "h", "i", "g", "h" >>) THEN "high"
    ELSE "medium"

\* lines 39-46: _infer_severity(text)
InferSeverity(text) ==
    LET text_lower == Lower(text) IN
    IF Contains(text_lower, << "c", "r", "i", "t", "i", "c", "a", "l" >>) \/ Contains(text_lower, << "h", "i", "g", "h" >>) THEN "high"
    ELSE IF Contains(text_lower, << "l", "o", "w" >>) \/ Contains(text_lower, << "m", "i", "n", "o", "r" >>) THEN "low"
    ELSE "medium"

\* mutant: a duplicate is a text equal to a description
IsDuplicate_equal(text, items) == \E k \in 1..Len(items) : items[k].description = text

\* lines 49-52: _is_duplicate(text, items)
IsDuplicate(text, items) ==
    LET prefix == Prefix(text, 50)
    IN  \E k \in 1..Len(items) : Contains(items[k].description, prefix)

\* f"gap-{gap_id}", f"risk-{risk_id}"
GapId(gap_id) == << "g", "a", "p", "-" >> \o Decimal(gap_id)

RiskId(risk_id) == << "r", "i", "s", "k", "-" >> \o Decimal(risk_id)

\* lines 95-101: the dict of a gap found in a gaps section
Gap(gap_id, gap_text) ==
    [id |-> GapId(gap_id), description |-> Prefix(gap_text, 200),
     severity |-> InferSeverity(gap_text)]

\* mutant: the id of a gap found under "Features Not Found" one ahead
NotFoundGap_idAhead(gap_id, gap_text) ==
    [id |-> GapId(gap_id + 1), description |-> Prefix(gap_text, 200), severity |-> "medium"]

\* lines 120-126: the dict of a gap found under "Features Not Found"
NotFoundGap(gap_id, gap_text) ==
    [id |-> GapId(gap_id), description |-> Prefix(gap_text, 200), severity |-> "medium"]

\* lines 156-162: the dict of a risk
Risk(risk_id, risk_text) ==
    [id |-> RiskId(risk_id), description |-> Prefix(risk_text, 200),
     impact |-> InferSeverity(risk_text)]

\* lines 93, 118: line.strip().lstrip("-").strip()
BulletText(line) == Strip(LStrip(Strip(line), { "-" }))

\* lines 154, 186: stripped.lstrip("0123456789.-) ").strip()
ItemText(stripped) ==
    Strip(LStrip(stripped, { "0", "1", "2", "3", "4", "5", "6", "7", "8", "9", ".", "-", ")", " " }))

\* mutant: the keyword alone opens a gaps section
GapsHeading_keywordOnly(line) == Contains(Strip(Lower(line)), << "g", "a", "p" >>)

\* line 86: the line opens a gaps section
GapsHeading(line) ==
    /\ Contains(Strip(Lower(line)), << "g", "a", "p" >>)
    /\ Contains(line, << "#", "#" >>) \/ Contains(Strip(Lower(line)), << "k", "e", "y" >>)

\* line 143: the line opens a risks section
RisksHeading(line) ==
    /\ Contains(Strip(Lower(line)), << "r", "i", "s", "k" >>)
    /\ Contains(line, << "#", "#" >>) \/ Contains(Strip(Lower(line)), << "t", "o", "p" >>)

\* line 177: the line opens the recommendations section
RecommendationsHeading(line) ==
    /\ Contains(Strip(Lower(line)), << "r", "e", "c", "o", "m", "m", "e", "n", "d", "a", "t", "i", "o", "n" >>)
    /\ Contains(line, << "#" >>)

\* line 111: the line opens the "Features Not Found" section
NotFoundHeading(line) ==
    /\ Contains(Lower(line), << "n", "o", "t", " ", "f", "o", "u", "n", "d" >>)
    /\ Contains(line, << "#" >>)

\* lines 95-101: gaps.append(...)
AddGap(gaps, gap_id, gap_text) == Append(gaps, Gap(gap_id, gap_text))

RECURSIVE ScanGaps(_, _, _, _, _)
\* lines 83-102: the loop over the lines of one source, from line i on; the
\* result is the list of gaps and the next gap_id
ScanGaps(lines, i, in_gaps_section, gaps, gap_id) ==
    IF i > Len(lines) THEN [items |-> gaps, gap_id |-> gap_id]
    ELSE LET line == lines[i]
             gap_text == BulletText(line)
         IN  IF GapsHeading(line) THEN ScanGaps(lines, i + 1, TRUE, gaps, gap_id)
             ELSE IF in_gaps_section /\ StartsWith(Strip(line), << "#", "#" >>)
             THEN ScanGaps(lines, i + 1, FALSE, gaps, gap_id)
             ELSE IF /\ in_gaps_section
                     /\ StartsWith(Strip(line), << "-" >>)
                     /\ Truthy(gap_text)
                     /\ Len(gap_text) > 5
             THEN ScanGaps(lines, i + 1, in_gaps_section, AddGap(gaps, gap_id, gap_text), gap_id + 1)
             ELSE ScanGaps(lines, i + 1, in_gaps_section, gaps, gap_id)

RECURSIVE ScanNotFound(_, _, _, _, _)
\* lines 110-127: the loop over the lines of the review text
ScanNotFound(lines, i, in_not_found, gaps, gap_id) ==
    IF i > Len(lines) THEN gaps
    ELSE LET line == lines[i]
             gap_text == BulletText(line)
         IN  IF NotFoundHeading(line) THEN ScanNotFound(lines, i + 1, TRUE, gaps, gap_id)
             ELSE IF in_not_found /\ StartsWith(Strip(line), << "#" >>)
             THEN ScanNotFound(lines, i + 1, FALSE, gaps, gap_id)
             ELSE IF /\ in_not_found
                     /\ StartsWith(Strip(line), << "-" >>)
                     /\ Truthy(gap_text)
                     /\ Len(gap_text) > 5
                     /\ ~IsDuplicate(gap_text, gaps)
             THEN ScanNotFound(lines, i + 1, in_not_found,
                               Append(gaps, NotFoundGap(gap_id, gap_text)), gap_id + 1)
             ELSE ScanNotFound(lines, i + 1, in_not_found, gaps, gap_id)

\* mutant: the cap of line 131 missing
Cap_none(items, n) == items

\* lines 131, 167, 193: items[:n]
Cap(items, n) == SubSeq(items, 1, IF Len(items) < n THEN Len(items) ELSE n)

\* lines 77-131: _extract_gaps(review_text, gaps_context)
ExtractGaps(review_text, gaps_context) ==
    LET first  == ScanGaps(SplitLines(review_text), 1, FALSE, << >>, 1)
        second == ScanGaps(SplitLines(gaps_context), 1, FALSE, first.items, first.gap_id)
        all    == IF Contains(Lower(review_text), << "n", "o", "t", " ", "f", "o", "u", "n", "d" >>)
                  THEN ScanNotFound(SplitLines(review_text), 1, FALSE, second.items, second.gap_id)
                  ELSE second.items
    IN  Cap(all, 20)

\* lines 151-153, 183-185: the line is a numbered or bulleted item; the
\* index stripped[0] is evaluated only when stripped is true
IsItem(stripped) ==
    Truthy(stripped) /\ (IsDigit(FirstChar(stripped)) \/ StartsWith(stripped, << "-" >>))

\* lines 152, 184: evaluating stripped[0] raises
ItemRaises(stripped) == Truthy(stripped) /\ FirstChar(stripped) = "IndexError"

RECURSIVE ScanRisks(_, _, _, _, _)
\* lines 140-163: the loop over the lines of one source; the result is the
\* list of risks, the next risk_id and whether a line raised IndexError
ScanRisks(lines, i, in_risks_section, risks, risk_id) ==
    IF i > Len(lines) THEN [raised |-> FALSE, items |-> risks, risk_id |-> risk_id]
    ELSE LET line == lines[i]
             stripped == Strip(line)
             risk_text == ItemText(stripped)
         IN  IF RisksHeading(line) THEN ScanRisks(lines, i + 1, TRUE, risks, risk_id)
             ELSE IF in_risks_section /\ StartsWith(Strip(line), << "#", "#" >>)
             THEN ScanRisks(lines, i + 1, FALSE, risks, risk_id)
             ELSE IF in_risks_section /\ ItemRaises(stripped)
             THEN [raised |-> TRUE, items |-> risks, risk_id |-> risk_id]
             ELSE IF /\ in_risks_section
                     /\ IsItem(stripped)
                     /\ Truthy(risk_text)
                     /\ Len(risk_text) > 10
                     /\ ~IsDuplicate(risk_text, risks)
             THEN ScanRisks(lines, i + 1, in_risks_section,
                            Append(risks, Risk(risk_id, risk_text)), risk_id + 1)
             ELSE ScanRisks(lines, i + 1, in_risks_section, risks, risk_id)

\* a scan ended in an exception
Failed(scan) == scan.raised

\* lines 134-167: _extract_risks(review_text, risks_context)
ExtractRisks(review_text, risks_context) ==
    LET first  == ScanRisks(SplitLines(review_text), 1, FALSE, << >>, 1)
        second == IF Failed(first) THEN first
                  ELSE ScanRisks(SplitLines(risks_context), 1, FALSE, first.items, first.risk_id)
    IN  [raised |-> Failed(second), items |-> Cap(second.items, 10)]

RECURSIVE ScanRecommendations(_, _, _, _)
\* lines 175-188: the loop over the lines of the review text
ScanRecommendations(lines, i, in_recommendations, recommendations) ==
    IF i > Len(lines) THEN [raised |-> FALSE, items |-> recommendations]
    ELSE LET line == lines[i]
             stripped == Strip(line)
             rec_text == ItemText(stripped)
         IN  IF RecommendationsHeading(line)
             THEN ScanRecommendations(lines, i + 1, TRUE, recommendations)
             ELSE IF in_recommendations /\ StartsWith(Strip(line), << "#", "#" >>)
             THEN ScanRecommendations(lines, i + 1, FALSE, recommendations)
             ELSE IF in_recommendations /\ ItemRaises(stripped)
             THEN [raised |-> TRUE, items |-> recommendations]
             ELSE IF /\ in_recommendations
                     /\ IsItem(stripped)
                     /\ Truthy(rec_text)
                     /\ Len(rec_text) > 10
             THEN ScanRecommendations(lines, i + 1, in_recommendations,
                                      Append(recommendations, Prefix(rec_text, 300)))
             ELSE ScanRecommendations(lines, i + 1, in_recommendations, recommendations)

\* lines 170-193: _extract_recommendations(review_text)
ExtractRecommendations(review_text) ==
    LET all == ScanRecommendations(SplitLines(review_text), 1, FALSE, << >>)
    IN  [raised |-> Failed(all), items |-> Cap(all.items, 10)]

\* lines 9-21: a ReviewState
ReviewState(timestamp, project_name, gaps, risks, recommendations, verdict, requirements_summary, architecture_summary) ==
    [ timestamp |-> timestamp, version |-> << "1", ".", "0" >>, project_name |-> project_name,
      gaps |-> gaps, risks |-> risks, recommendations |-> recommendations,
      verdict |-> verdict, requirements_summary |-> requirements_summary,
      architecture_summary |-> architecture_summary ]

\* lines 55-74: extract_state_from_review(review_result), with the clock
\* and the working directory's name it reads; the result is
\* [ok |-> TRUE, state |-> the ReviewState] or [ok |-> FALSE, exc |-> ...]
ExtractStateFromReview(review_result, now, cwd_name) ==
    LET review_text == review_result.review
        gaps == ExtractGaps(review_text, review_result.gaps)
        risks == ExtractRisks(review_text, review_result.risks)
        recommendations == ExtractRecommendations(review_text)
        verdict == StateExtractVerdict(review_text)
    IN  IF Failed(risks) \/ Failed(recommendations)
        THEN [ok |-> FALSE, state |-> << >>, exc |-> Exc("IndexError", "")]
        ELSE [ok |-> TRUE,
              state |-> ReviewState(now, cwd_name, gaps, risks.items, recommendations.items,
                                    verdict,
                                    review_result.requirements_summary,
                                    review_result.architecture_summary),
              exc |-> NoExc]

(***************************************************************************)
(* state.py lines 23-36: ReviewState as JSON text and back.  Strings are   *)
(* made of printable ASCII characters, line breaks, carriage returns and   *)
(* tabs.                                                                    *)
(***************************************************************************)
\* the fields of the dataclass, in the order of their declaration
FieldOrder ==
    << "timestamp", "version", "project_name", "gaps", "risks", "recommendations",
       "verdict", "requirements_summary", "architecture_summary" >>

\* the names of the fields and of the keys of the gap and risk dicts, as text
KeyChars ==
    [ timestamp |-> << "t", "i", "m", "e", "s", "t", "a", "m", "p" >>,
      version |-> << "v", "e", "r", "s", "i", "o", "n" >>,
      project_name |-> << "p", "r", "o", "j", "e", "c", "t", "_", "n", "a", "m", "e" >>,
      gaps |-> << "g", "a", "p", "s" >>,
      risks |-> << "r", "i", "s", "k", "s" >>,
      recommendations |-> << "r", "e", "c", "o", "m", "m", "e", "n", "d", "a", "t", "i", "o", "n", "s" >>,
      verdict |-> << "v", "e", "r", "d", "i", "c", "t" >>,
      requirements_summary |-> << "r", "e", "q", "u", "i", "r", "e", "m", "e", "n", "t", "s", "_", "s", "u", "m", "m", "a", "r", "y" >>,
      architecture_summary |-> << "a", "r", "c", "h", "i", "t", "e", "c", "t", "u", "r", "e", "_", "s", "u", "m", "m", "a", "r", "y" >>,
      id |-> << "i", "d" >>,
      description |-> << "d", "e", "s", "c", "r", "i", "p", "t", "i", "o", "n" >>,
      severity |-> << "s", "e", "v", "e", "r", "i", "t", "y" >>,
      impact |-> << "i", "m", "p", "a", "c", "t" >> ]

\* the keys of a gap dict and of a risk dict, in the order of insertion
GapKeys == << "id", "description", "severity" >>

RiskKeys == << "id", "description", "impact" >>

\* json.dumps of one character of a str
EscapeChar(c) ==
    CASE c = "\"" -> << "\\", "\"" >>
      [] c = "\\" -> << "\\", "\\" >>
      [] c = "\n" -> << "\\", "n" >>
      [] c = "\r" -> << "\\", "r" >>
      [] c = "\t" -> << "\\", "t" >>
      [] OTHER -> << c >>

RECURSIVE Escape(_, _)
\* the escaped characters of text from position i on
Escape(text, i) ==
    IF i > Len(text) THEN << >> ELSE EscapeChar(text[i]) \o Escape(text, i + 1)

\* json.dumps of a str
JsonString(text) == << "\"" >> \o Escape(text, 1) \o << "\"" >>

\* the line break and the indentation json.dumps(indent=2) writes at a
\* nesting level
Indent(level) == << "\n" >> \o [ i \in 1..(2 * level) |-> " " ]

RECURSIVE JsonJoin(_, _, _)
\* the encoded items from the k-th on, one per line, with "," between them
JsonJoin(encoded, k, level) ==
    IF k > Len(encoded) THEN << >>
    ELSE Indent(level) \o encoded[k]
         \o (IF k < Len(encoded) THEN << "," >> ELSE << >>)
         \o JsonJoin(encoded, k + 1, level)

\* json.dumps of a list whose items are encoded already; the list is
\* written at nesting level level
JsonList(encoded, level) ==
    IF encoded = << >> THEN << "[", "]" >>
    ELSE << "[" >> \o JsonJoin(encoded, 1, level + 1) \o Indent(level) \o << "]" >>

\* json.dumps of a dict with the given keys whose values are encoded already
JsonDict(keys, encoded, level) ==
    IF keys = << >> THEN << "{", "}" >>
    ELSE << "{" >>
         \o JsonJoin([ k \in 1..Len(keys) |->
                         JsonString(KeyChars[keys[k]]) \o << ":", " " >> \o encoded[k] ],
                     1, level + 1)
         \o Indent(level) \o << "}" >>

\* json.dumps of a dict of str values
JsonRecord(keys, dict, level) ==
    JsonDict(keys, [ k \in 1..Len(keys) |-> JsonString(dict[keys[k]]) ], level)

\* json.dumps of one field of asdict(self)
JsonField(state, name) ==
    CASE name = "gaps" ->
            JsonList([ k \in 1..Len(state.gaps) |-> JsonRecord(GapKeys, state.gaps[k], 2) ], 1)
      [] name = "risks" ->
            JsonList([ k \in 1..Len(state.risks) |-> JsonRecord(RiskKeys, state.risks[k], 2) ], 1)
      [] name = "recommendations" ->
            JsonList([ k \in 1..Len(state.recommendations) |->
                         JsonString(state.recommendations[k]) ], 1)
      [] OTHER -> JsonString(state[name])

\* lines 23-24: to_json(self) == json.dumps(asdict(self), indent=2)
ToJson(state) ==
    JsonDict(FieldOrder, [ k \in 1..Len(FieldOrder) |-> JsonField(state, FieldOrder[k]) ], 0)

\* the whitespace between the tokens of JSON
JsonWhitespace == { " ", "\t", "\n", "\r" }

RECURSIVE SkipWhitespace(_, _)
\* the first position from i on that holds no whitespace
SkipWhitespace(text, i) ==
    IF i <= Len(text) /\ text[i] \in JsonWhitespace THEN SkipWhitespace(text, i + 1) ELSE i

RECURSIVE StringEnd(_, _)
\* the position of the quote that closes a string, searched from i on: a
\* backslash takes the character after it along
StringEnd(text, i) ==
    IF i > Len(text) THEN 0
    ELSE IF text[i] = "\\" THEN StringEnd(text, i + 2)
    ELSE IF text[i] = "\"" THEN i
    ELSE StringEnd(text, i + 1)

\* mutant: the character after a backslash taken as it stands
UnescapeChar_literal(c) == c

\* json.loads of the character after a backslash
UnescapeChar(c) ==
    CASE c = "n" -> "\n"
      [] c = "r" -> "\r"
      [] c = "t" -> "\t"
      [] OTHER -> c

RECURSIVE Unescape(_, _)
\* the characters of the body of a string from position i on
Unescape(body, i) ==
    IF i > Len(body) THEN << >>
    ELSE IF body[i] = "\\" /\ i < Len(body)
    THEN << UnescapeChar(body[i + 1]) >> \o Unescape(body, i + 2)
    ELSE << body[i] >> \o Unescape(body, i + 1)

\* the result of decoding a value: the value and the position after it;
\* ok is FALSE when the text is no JSON (json.JSONDecodeError)
Decoded(v, next) == [ok |-> TRUE, v |-> v, next |-> next]

Undecodable == [ok |-> FALSE, v |-> << >>, next |-> 0]

\* the name of a key given as text
NameOf(chars) == CHOOSE n \in DOMAIN KeyChars : KeyChars[n] = chars

\* the dict of a list of decoded << key, value >> members; a later member
\* replaces an earlier one of the same key
DictOf(members) ==
    [ n \in { NameOf(members[k][1]) : k \in 1..Len(members) } |->
        LET last == CHOOSE k \in 1..Len(members) :
                        /\ NameOf(members[k][1]) = n
                        /\ \A j \in (k + 1)..Len(members) : NameOf(members[j][1]) # n
        IN  members[last][2] ]

\* json.loads of the string that opens at position i
ParseString(text, i) ==
    LET end == StringEnd(text, i + 1)
    IN  IF end = 0 THEN Undecodable
        ELSE Decoded(Unescape(SubSeq(text, i + 1, end - 1), 1), end + 1)

RECURSIVE ParseValue(_, _)
RECURSIVE ParseItems(_, _, _)
RECURSIVE ParseMembers(_, _, _)
\* json.loads of the value at position i: a string, a list or a dict
ParseValue(text, i) ==
    IF i > Len(text) THEN Undecodable
    ELSE IF text[i] = "\"" THEN ParseString(text, i)
    ELSE IF text[i] = "[" THEN
        LET k == SkipWhitespace(text, i + 1)
        IN  IF k <= Len(text) /\ text[k] = "]" THEN Decoded(<< >>, k + 1)
            ELSE ParseItems(text, k, << >>)
    ELSE IF text[i] = "{" THEN
        LET k == SkipWhitespace(text, i + 1)
        IN  IF k <= Len(text) /\ text[k] = "}" THEN Decoded(DictOf(<< >>), k + 1)
            ELSE ParseMembers(text, k, << >>)
    ELSE Undecodable

\* the items of a list from the one at position i on, after the items found
ParseItems(text, i, items) ==
    LET item == ParseValue(text, i)
        k == SkipWhitespace(text, item.next)
    IN  IF ~item.ok \/ k > Len(text) THEN Undecodable
        ELSE IF text[k] = "," 
        THEN ParseItems(text, SkipWhitespace(text, k + 1), Append(items, item.v))
        ELSE IF text[k] = "]" THEN Decoded(Append(items, item.v), k + 1)
        ELSE Undecodable

\* the members of a dict from the one at position i on
ParseMembers(text, i, members) ==
    IF i > Len(text) \/ text[i] # "\"" THEN Undecodable
    ELSE LET key == ParseString(text, i)
             colon == SkipWhitespace(text, key.next)
         IN  IF ~key.ok \/ colon > Len(text) \/ text[colon] # ":" THEN Undecodable
             ELSE LET member == ParseValue(text, SkipWhitespace(text, colon + 1))
                      k == SkipWhitespace(text, member.next)
                      found == Append(members, << key.v, member.v >>)
                  IN  IF ~member.ok \/ k > Len(text) THEN Undecodable
                      ELSE IF text[k] = ","
                      THEN ParseMembers(text, SkipWhitespace(text, k + 1), found)
                      ELSE IF text[k] = "}" THEN Decoded(DictOf(found), k + 1)
                      ELSE Undecodable

\* json.loads(json_str): one value, with nothing but whitespace around it
Loads(json_str) ==
    LET top == ParseValue(json_str, SkipWhitespace(json_str, 1))
    IN  IF top.ok /\ SkipWhitespace(json_str, top.next) > Len(json_str) THEN top
        ELSE Undecodable

\* the fields of the dataclass and the defaults of lines 14-21
Fields == { FieldOrder[k] : k \in 1..Len(FieldOrder) }

FieldDefaults ==
    [ version |-> << "1", ".", "0" >>, project_name |-> << >>, gaps |-> << >>,
      risks |-> << >>, recommendations |-> << >>, verdict |-> << >>,
      requirements_summary |-> << >>, architecture_summary |-> << >> ]

\* lines 26-29: from_json(cls, json_str) == cls(**json.loads(json_str)); the
\* constructor takes the fields by name, timestamp being required
FromJson(json_str) ==
    LET data == Loads(json_str)
    IN  IF ~data.ok THEN [ok |-> FALSE, state |-> << >>, exc |-> Exc("JSONDecodeError", "")]
        ELSE IF ~(DOMAIN data.v \subseteq Fields) \/ "timestamp" \notin DOMAIN data.v
        THEN [ok |-> FALSE, state |-> << >>, exc |-> Exc("TypeError", "")]
        ELSE [ok |-> TRUE,
              state |-> [ f \in Fields |->
                            IF f \in DOMAIN data.v THEN data.v[f] ELSE FieldDefaults[f] ],
              exc |-> NoExc]

RECURSIVE Flatten(_, _, _)
\* the pieces lo to hi of a list of strings, one after the other
Flatten(pieces, lo, hi) ==
    IF lo > hi THEN << >>
    ELSE IF lo = hi THEN pieces[lo]
    ELSE LET mid == (lo + hi) \div 2
         IN  Flatten(pieces, lo, mid) \o Flatten(pieces, mid + 1, hi)

\* the line separators of the platforms (os.linesep)
LineSeparators == { << "\n" >>, << "\r", "\n" >> }

\* Path.write_text(data): text mode writes linesep for every line break
WriteText(data, linesep) ==
    Flatten([ i \in 1..Len(data) |-> IF data[i] = "\n" THEN linesep ELSE << data[i] >> ],
            1, Len(data))

\* Path.read_text(): text mode reads "\r\n" and "\r" as a line break
ReadText(file) ==
    Flatten([ i \in 1..Len(file) |->
                IF file[i] = "\r" /\ i < Len(file) /\ file[i + 1] = "\n" THEN << >>
                ELSE IF file[i] = "\r" THEN << "\n" >>
                ELSE << file[i] >> ],
            1, Len(file))

\* lines 35-36: save(self, path), as the content of the file written
Save(state, linesep) == WriteText(ToJson(state), linesep)

\* lines 31-33: from_file(cls, path), of the content of the file
FromFile(file) == FromJson(ReadText(file))

(***************************************************************************)
(* The functions of strings, each called on its own (SpecFunctions).       *)
(***************************************************************************)
\* review texts are made of at most this many fragments
MaxFragments == 3

\* n characters that belong to no keyword
Filler(n) == [ i \in 1..n |-> "." ]

RECURSIVE Concat(_)
\* the strings of a list, one after the other
Concat(list) == IF list = << >> THEN << >> ELSE Head(list) \o Concat(Tail(list))

\* the fragments of the review texts: the keywords of both verdict
\* extractors, and fillers that push a keyword across the end of the 50- and
\* of the 100-character window
VerdictFragments ==
    << 
       \* "Verdict: "
       << "V", "e", "r", "d", "i", "c", "t", ":", " " >>,
       \* "FAIL"
       << "F", "A", "I", "L" >>,
       \* "PASS"
       << "P", "A", "S", "S" >>,
       \* "PASS WITH CONCERNS"
       << "P", "A", "S", "S", " ", "W", "I", "T", "H", " ", "C", "O", "N", "C", "E", "R", "N", "S" >>,
       \* "Impact: High "
       << "I", "m", "p", "a", "c", "t", ":", " ", "H", "i", "g", "h", " " >>,
       \* "impact high "
       << "i", "m", "p", "a", "c", "t", " ", "h", "i", "g", "h", " " >>,
       \* "critical "
       << "c", "r", "i", "t", "i", "c", "a", "l", " " >>,
       \* "severe"
       << "s", "e", "v", "e", "r", "e" >>,
       \* "major vulnerability"
       << "m", "a", "j", "o", "r", " ", "v", "u", "l", "n", "e", "r", "a", "b", "i", "l", "i", "t", "y" >>,
       Filler(45), Filler(48), Filler(96) >>

\* the review texts given to the verdict extractors
VerdictTexts ==
    UNION { { Concat([ i \in 1..n |-> VerdictFragments[f[i]] ]) :
                f \in [ 1..n -> 1..Len(VerdictFragments) ] } : n \in 0..MaxFragments }

\* documents given to the parser have at most this many lines
MaxLines == 3

\* the longest list given to the parser has this many items
MaxItems == 30

\* the lines the documents are made of: headings of each kind, bullets (two
\* of them alike in their first 50 characters, one too short to count), a
\* numbered item and an empty line
ParserLines ==
    <<
       \* "## Gaps"
       << "#", "#", " ", "G", "a", "p", "s" >>,
       \* "Key gaps:"
       << "K", "e", "y", " ", "g", "a", "p", "s", ":" >>,
       \* "## Top Risks"
       << "#", "#", " ", "T", "o", "p", " ", "R", "i", "s", "k", "s" >>,
       \* "## Recommendations"
       << "#", "#", " ", "R", "e", "c", "o", "m", "m", "e", "n", "d", "a", "t", "i", "o", "n", "s" >>,
       \* "### Features Not Found"
       << "#", "#", "#", " ", "F", "e", "a", "t", "u", "r", "e", "s", " ", "N", "o", "t", " ", "F", "o", "u", "n", "d" >>,
       \* "- No rate limiting on the public API (high)"
       << "-", " ", "N", "o", " ", "r", "a", "t", "e", " ", "l", "i", "m", "i", "t", "i", "n", "g", " ", "o", "n", " ", "t", "h", "e", " ", "p", "u", "b", "l", "i", "c", " ", "A", "P", "I", " ", "(", "h", "i", "g", "h", ")" >>,
       \* "- The payment service has no retry policy for failed calls A"
       << "-", " ", "T", "h", "e", " ", "p", "a", "y", "m", "e", "n", "t", " ", "s", "e", "r", "v", "i", "c", "e", " ", "h", "a", "s", " ", "n", "o", " ", "r", "e", "t", "r", "y", " ", "p", "o", "l", "i", "c", "y", " ", "f", "o", "r", " ", "f", "a", "i", "l", "e", "d", " ", "c", "a", "l", "l", "s", " ", "A" >>,
       \* "- The payment service has no retry policy for failed calls B"
       << "-", " ", "T", "h", "e", " ", "p", "a", "y", "m", "e", "n", "t", " ", "s", "e", "r", "v", "i", "c", "e", " ", "h", "a", "s", " ", "n", "o", " ", "r", "e", "t", "r", "y", " ", "p", "o", "l", "i", "c", "y", " ", "f", "o", "r", " ", "f", "a", "i", "l", "e", "d", " ", "c", "a", "l", "l", "s", " ", "B" >>,
       \* "   - short"
       << " ", " ", " ", "-", " ", "s", "h", "o", "r", "t" >>,
       \* "1. Rotate all credentials (low)"
       << "1", ".", " ", "R", "o", "t", "a", "t", "e", " ", "a", "l", "l", " ", "c", "r", "e", "d", "e", "n", "t", "i", "a", "l", "s", " ", "(", "l", "o", "w", ")" >>,
       \* ""
       <<  >> >>

RECURSIVE JoinLines(_)
\* "\n".join(lines)
JoinLines(lines) ==
    IF lines = << >> THEN << >>
    ELSE IF Len(lines) = 1 THEN lines[1]
    ELSE lines[1] \o << "\n" >> \o JoinLines(Tail(lines))

\* the documents of at most MaxLines lines
ShortDocuments ==
    UNION { { JoinLines([ i \in 1..n |-> ParserLines[f[i]] ]) :
                f \in [ 1..n -> 1..Len(ParserLines) ] } : n \in 0..MaxLines }

\* the k-th item of a long list
ItemText_(k) == << "i", "t", "e", "m", " ", "n", "u", "m", "b", "e", "r", " " >> \o Decimal(k) \o << " ", "o", "f", " ", "t", "h", "e", " ", "l", "i", "s", "t" >>

\* a heading followed by n bulleted items
ListDocument(heading, n) ==
    JoinLines(<< heading >> \o [ k \in 1..n |-> << "-", " " >> \o ItemText_(k) ])

\* the lengths of the long lists: around both caps, and the longest
ItemCounts == { 9, 10, 11, 19, 20, 21, MaxItems }

ListHeadings == { ParserLines[1], ParserLines[3], ParserLines[4], ParserLines[5] }

ListDocuments == { ListDocument(h, n) : h \in ListHeadings, n \in ItemCounts }

\* a findings context of an earlier phase
ContextDocument ==
    JoinLines(<< ParserLines[1], ParserLines[6], ParserLines[3], ParserLines[7], ParserLines[10] >>)

\* a line of more than 200 characters after its bullet marker
LongLine == << "-", " ", "L", "o", "n", "g", " " >> \o Filler(200) \o << " ", "t", "a", "i", "l" >>

\* documents about the edges of the sections: a bullet with the words of a
\* heading, a single "#" heading, a line with the keyword and no heading
\* marker, bullets of five and of six characters, an empty bullet, numbered
\* items of ten and of eleven characters, a line of more than 200
\* characters, lines with the words of two severities
SectionDocuments ==
    { JoinLines(<<
       \* "## Gaps"
       << "#", "#", " ", "G", "a", "p", "s" >>,
       \* "- Key gap: no audit trail of changes"
       << "-", " ", "K", "e", "y", " ", "g", "a", "p", ":", " ", "n", "o", " ", "a", "u", "d", "i", "t", " ", "t", "r", "a", "i", "l", " ", "o", "f", " ", "c", "h", "a", "n", "g", "e", "s" >>,
       ParserLines[6],
       \* "# Notes"
       << "#", " ", "N", "o", "t", "e", "s" >>,
       ParserLines[7],
       LongLine,
       ParserLines[3],
       ParserLines[8] >>),
      JoinLines(<<
       \* "The gap analysis follows"
       << "T", "h", "e", " ", "g", "a", "p", " ", "a", "n", "a", "l", "y", "s", "i", "s", " ", "f", "o", "l", "l", "o", "w", "s" >>,
       ParserLines[6],
       ParserLines[1],
       ParserLines[9],
       \* "-"
       << "-" >>,
       \* "- 123456"
       << "-", " ", "1", "2", "3", "4", "5", "6" >>,
       \* "* a star is no bullet marker"
       << "*", " ", "a", " ", "s", "t", "a", "r", " ", "i", "s", " ", "n", "o", " ", "b", "u", "l", "l", "e", "t", " ", "m", "a", "r", "k", "e", "r" >>,
       \* "- Critical path has low test coverage"
       << "-", " ", "C", "r", "i", "t", "i", "c", "a", "l", " ", "p", "a", "t", "h", " ", "h", "a", "s", " ", "l", "o", "w", " ", "t", "e", "s", "t", " ", "c", "o", "v", "e", "r", "a", "g", "e" >>,
       \* "- MINOR: HIGHLY coupled modules"
       << "-", " ", "M", "I", "N", "O", "R", ":", " ", "H", "I", "G", "H", "L", "Y", " ", "c", "o", "u", "p", "l", "e", "d", " ", "m", "o", "d", "u", "l", "e", "s" >>,
       ParserLines[5],
       ParserLines[6] >>),
      JoinLines(<<
       ParserLines[3],
       \* "1. Top risk: credentials are shared"
       << "1", ".", " ", "T", "o", "p", " ", "r", "i", "s", "k", ":", " ", "c", "r", "e", "d", "e", "n", "t", "i", "a", "l", "s", " ", "a", "r", "e", " ", "s", "h", "a", "r", "e", "d" >>,
       \* "2) 1234567890"
       << "2", ")", " ", "1", "2", "3", "4", "5", "6", "7", "8", "9", "0" >>,
       \* "3. 12345678901"
       << "3", ".", " ", "1", "2", "3", "4", "5", "6", "7", "8", "9", "0", "1" >>,
       ParserLines[7],
       \* "# Notes"
       << "#", " ", "N", "o", "t", "e", "s" >>,
       ParserLines[8],
       LongLine,
       \* "## Other"
       << "#", "#", " ", "O", "t", "h", "e", "r" >>,
       ParserLines[10] >>),
      JoinLines(<<
       \* "Risk register"
       << "R", "i", "s", "k", " ", "r", "e", "g", "i", "s", "t", "e", "r" >>,
       ParserLines[10],
       \* "top risks"
       << "t", "o", "p", " ", "r", "i", "s", "k", "s" >>,
       ParserLines[10],
       ParserLines[6],
       \* "- Critical path has low test coverage"
       << "-", " ", "C", "r", "i", "t", "i", "c", "a", "l", " ", "p", "a", "t", "h", " ", "h", "a", "s", " ", "l", "o", "w", " ", "t", "e", "s", "t", " ", "c", "o", "v", "e", "r", "a", "g", "e" >>,
       \* "- MINOR: HIGHLY coupled modules"
       << "-", " ", "M", "I", "N", "O", "R", ":", " ", "H", "I", "G", "H", "L", "Y", " ", "c", "o", "u", "p", "l", "e", "d", " ", "m", "o", "d", "u", "l", "e", "s" >> >>) }

\* the contexts given along with the review text d: empty, the review text
\* itself, or ContextDocument
ContextsOf(d) == { << >>, d, ContextDocument }

\* the dicts run_review returns, as far as extract_state_from_review reads them
ReviewResults ==
    UNION { { [review |-> d, gaps |-> c, risks |-> c,
               requirements_summary |-> << "R", "e", "q", "s" >>,
               architecture_summary |-> << "A", "r", "c", "h" >>] : c \in ContextsOf(d) } :
            d \in ShortDocuments \cup ListDocuments \cup SectionDocuments }

\* datetime.now().isoformat() and Path.cwd().name
Now == << "2", "0", "2", "6", "-", "0", "1", "-", "0", "1", "T", "0", "0", ":", "0", "0", ":", "0", "0" >>

CwdName == << "p", "r", "o", "j", "e", "c", "t" >>

\* the lists of a ReviewState have at most this many records
MaxRecords == 2

\* strings with the characters JSON escapes or gives a meaning to: empty, a
\* quote, a backslash before n, a line break, a tab and a carriage return, a
\* backslash before a quote, a backslash at the end, brackets and separators
SpecialStrings ==
    { << >>,
      << "a", "\"", "b" >>,
      << "C", ":", "\\", "n" >>,
      << "x", "\n", "y" >>,
      << "\t", "\r" >>,
      << "\\", "\"" >>,
      << "e", "n", "d", "\\" >>,
      << "[", "]", "{", "}", ",", ":", " " >> }

\* the ReviewStates that are encoded and decoded: 0 to MaxRecords gaps,
\* risks and recommendations, the texts taken from SpecialStrings
ReviewStates ==
    { ReviewState(Now, a,
                  [ k \in 1..n |-> [id |-> GapId(k), description |-> b,
                                     severity |-> << "h", "i", "g", "h" >>] ],
                  [ k \in 1..n |-> [id |-> RiskId(k),
                                     description |-> IF k = 1 THEN a ELSE b,
                                     impact |-> << "l", "o", "w" >>] ],
                  [ k \in 1..n |-> IF k = 1 THEN b ELSE a ],
                  << "P", "A", "S", "S", " ", "W", "I", "T", "H", " ", "C", "O", "N", "C", "E", "R", "N", "S" >>, a, b) :
        a \in SpecialStrings, b \in SpecialStrings, n \in 0..MaxRecords }

\* no condenser call and no review command is under way
Quiet ==
    /\ cpc = "idle"
    /\ fn = ""
    /\ content = << >>
    /\ system_prompt = TEST_PROMPT
    /\ chunks = << >>
    /\ chunk_results = << >>
    /\ ret = << >>
    /\ exc = NoExc
    /\ calls = << >>
    /\ round = 0
    /\ NoCommand

\* the arguments each function is called with
ArgumentsOf(f) ==
    CASE f = "cli._extract_verdict" ->
            { [review_text |-> t, strict |-> b] : t \in VerdictTexts, b \in BOOLEAN }
      [] f = "state._extract_verdict" ->
            { [review_text |-> t] : t \in VerdictTexts }
      [] f = "extract_state_from_review" ->
            { [review_result |-> r, now |-> Now, cwd_name |-> CwdName] : r \in ReviewResults }
      [] f = "ReviewState.from_json" ->
            { [state |-> s] : s \in ReviewStates }
      [] f = "ReviewState.from_file" ->
            { [state |-> s, linesep |-> l] : s \in ReviewStates, l \in LineSeparators }

FunctionNames ==
    { "cli._extract_verdict", "state._extract_verdict", "extract_state_from_review",
      "ReviewState.from_json", "ReviewState.from_file" }

InitFunctions ==
    /\ func \in FunctionNames
    /\ arguments \in ArgumentsOf(func)
    /\ value = << >>
    /\ Quiet

\* the call of func returns v
Returns(f, v) ==
    /\ func = f
    /\ value = << >>
    /\ value' = << v >>
    /\ UNCHANGED << func, arguments, cvars, ovars >>

\* cli.py line 355: _extract_verdict(result["review"], strict=strict)
CallCliExtractVerdict ==
    /\ func = "cli._extract_verdict"
    /\ Returns("cli._extract_verdict",
               CliExtractVerdict(arguments.review_text, arguments.strict))

\* state.py line 62: _extract_verdict(review_text)
CallStateExtractVerdict ==
    /\ func = "state._extract_verdict"
    /\ Returns("state._extract_verdict", StateExtractVerdict(arguments.review_text))

\* cli.py line 378: extract_state_from_review(result)
CallExtractStateFromReview ==
    /\ func = "extract_state_from_review"
    /\ Returns("extract_state_from_review",
               ExtractStateFromReview(arguments.review_result, arguments.now,
                                      arguments.cwd_name))

\* test_state.py lines 31-32: ReviewState.from_json(state.to_json())
CallFromJson ==
    /\ func = "ReviewState.from_json"
    /\ Returns("ReviewState.from_json", FromJson(ToJson(arguments.state)))

\* test_state.py lines 46-47: state.save(path); ReviewState.from_file(path)
CallFromFile ==
    /\ func = "ReviewState.from_file"
    /\ Returns("ReviewState.from_file", FromFile(Save(arguments.state, arguments.linesep)))

NextFunctions ==
    \/ CallCliExtractVerdict
    \/ CallStateExtractVerdict
    \/ CallExtractStateFromReview
    \/ CallFromJson
    \/ CallFromFile

SpecFunctions == InitFunctions /\ [][NextFunctions]_vars

(***************************************************************************)
(* cli.py lines 285-317: _run_remediation_mode (SpecRemediate).  The text  *)
(* files of the output directory are given character by character.         *)
(***************************************************************************)
\* the ReviewStates a previous review may have saved
SavedStates ==
    { s \in ReviewStates : Len(s.gaps) = MaxRecords }

\* texts of state.json that do not load: empty, cut off in the middle, a
\* JSON list, a JSON dict without the timestamp
CorruptTexts ==
    { << >>, << "[", "]" >>, << "{", "}" >> }
    \cup { Prefix(ToJson(s), Len(ToJson(s)) \div 2) : s \in SavedStates }

\* the output directories the command may find: state.json absent, saved by
\* a review or corrupt; remediation notes absent or left by an earlier run
RemediationDirs ==
    { [ n \in FileNames |->
          CASE n = DEFAULT_STATE_FILE -> st
            [] n = DEFAULT_REMEDIATION_FILE -> notes
            [] OTHER -> Absent ] :
        st \in { Absent } \cup { TextFile(Save(s, << "\n" >>)) : s \in SavedStates }
                          \cup { TextFile(t) : t \in CorruptTexts },
        notes \in { Absent, TextFile(<< "e", "a", "r", "l", "i", "e", "r", " ", "n", "o", "t", "e", "s" >>) } }

\* what run_remediation may return
RemediationNotes == { << "R", "E", "M", "E", "D", "I", "A", "T", "I", "O", "N", " ", "M", "O", "D", "E" >>, << "R", "E", "M", "E", "D", "I", "A", "T", "I", "O", "N", " ", "M", "O", "D", "E", "\n", "U", "s", "e", "r", ":", " ", "1" >> }

InitRemediate ==
    /\ pc = "remediate"
    /\ should_archive = FALSE
    /\ json_output = FALSE
    /\ no_state = FALSE
    /\ ci_mode = FALSE
    /\ strict = FALSE
    /\ skip_policy_check = FALSE
    /\ files \in RemediationDirs
    /\ files0 = files
    /\ archived = << >>
    /\ exit_code = -1
    /\ error = NoExc
    /\ policy_engine_id = ""
    /\ agents = {}
    /\ captured_output = << >>
    /\ locals = NoLocals
    /\ result = << >>
    /\ trace = << >>
    /\ cpc = "idle"
    /\ fn = ""
    /\ content = << >>
    /\ system_prompt = TEST_PROMPT
    /\ chunks = << >>
    /\ chunk_results = << >>
    /\ ret = << >>
    /\ exc = NoExc
    /\ calls = << >>
    /\ round = 0
    /\ func = "_run_remediation_mode"
    /\ arguments \in { [no_remediation_output |-> b] : b \in BOOLEAN }
    /\ value = << >>

\* lines 295-298: state.json does not exist
RemediateMissing ==
    /\ pc = "remediate"
    /\ files[DEFAULT_STATE_FILE] = Absent
    /\ exit_code' = EXIT_ERROR
    /\ pc' = "exited"
    /\ UNCHANGED << cvars, flags, files, archived, error, files0, policy_engine_id, agents,
                    captured_output, locals, result, trace, pvars >>

\* mutant: a state file that does not load is replaced by an empty state
RemediateLoad_defaults ==
    /\ pc = "remediate"
    /\ files[DEFAULT_STATE_FILE] # Absent
    /\ LET loaded == FromFile(files[DEFAULT_STATE_FILE].parts[1])
       IN  /\ value' = << IF loaded.ok THEN loaded.state
                          ELSE ReviewState(<< >>, << >>, << >>, << >>, << >>, << >>, << >>, << >>) >>
           /\ pc' = "loaded"
           /\ UNCHANGED error
    /\ UNCHANGED << cvars, flags, files, archived, exit_code, files0, policy_engine_id, agents,
                    captured_output, locals, result, trace, func, arguments >>

\* lines 300-302: ReviewState.from_file(state_path) returns the state or
\* raises
RemediateLoad ==
    /\ pc = "remediate"
    /\ files[DEFAULT_STATE_FILE] # Absent
    /\ LET loaded == FromFile(files[DEFAULT_STATE_FILE].parts[1])
       IN  IF loaded.ok
           THEN /\ value' = << loaded.state >>
                /\ pc' = "loaded"
                /\ UNCHANGED error
           ELSE /\ error' = loaded.exc
                /\ pc' = "except"
                /\ UNCHANGED value
    /\ UNCHANGED << cvars, flags, files, archived, exit_code, files0, policy_engine_id, agents,
                    captured_output, locals, result, trace, func, arguments >>

\* lines 304-307: create_remediation_agent returns the agent or raises
CreateRemediationAgent ==
    /\ pc = "loaded"
    /\ \/ /\ agents' = { "remediation_agent" }
          /\ pc' = "agent created"
          /\ UNCHANGED error
       \/ /\ \E e \in AgentErrors : error' = e
          /\ pc' = "except"
          /\ UNCHANGED agents
    /\ UNCHANGED << cvars, flags, files, archived, exit_code, files0, policy_engine_id,
                    captured_output, locals, result, trace, pvars >>

\* line 308: run_remediation(agent, state) returns the notes or raises
RunRemediation ==
    /\ pc = "agent created"
    /\ \/ /\ \E notes \in RemediationNotes : result' = << notes >>
          /\ pc' = "notes"
          /\ UNCHANGED error
       \/ /\ \E e \in AgentErrors : error' = e
          /\ pc' = "except"
          /\ UNCHANGED result
    /\ UNCHANGED << cvars, flags, files, archived, exit_code, files0, policy_engine_id, agents,
                    captured_output, locals, trace, pvars >>

\* lines 310-313: the notes are written unless --no-remediation-output, or
\* write_text raises; the command returns and the process ends with 0
SaveNotes ==
    /\ pc = "notes"
    /\ \/ /\ arguments.no_remediation_output
          /\ exit_code' = EXIT_SUCCESS
          /\ pc' = "exited"
          /\ UNCHANGED << files, error >>
       \/ /\ ~arguments.no_remediation_output
          /\ files' = [files EXCEPT ![DEFAULT_REMEDIATION_FILE] = TextFile(result[1])]
          /\ exit_code' = EXIT_SUCCESS
          /\ pc' = "exited"
          /\ UNCHANGED error
       \/ /\ ~arguments.no_remediation_output
          /\ error' = Exc("OSError", "")
          /\ pc' = "except"
          /\ UNCHANGED << files, exit_code >>
    /\ UNCHANGED << cvars, flags, archived, files0, policy_engine_id, agents,
                    captured_output, locals, result, trace, pvars >>

\* lines 315-317: except Exception
RemediateExceptExit ==
    /\ pc = "except"
    /\ exit_code' = EXIT_ERROR
    /\ pc' = "exited"
    /\ UNCHANGED << cvars, flags, files, archived, error, files0, policy_engine_id, agents,
                    captured_output, locals, result, trace, pvars >>

NextRemediate ==
    \/ RemediateMissing
    \/ RemediateLoad
    \/ CreateRemediationAgent
    \/ RunRemediation
    \/ SaveNotes
    \/ RemediateExceptExit

SpecRemediate == InitRemediate /\ [][NextRemediate]_vars

(***************************************************************************)
(* Properties of the condenser (SpecCondense).                             *)
(***************************************************************************)
ViaExtract == fn # "_chunked_extract"

CallsOf(name) == SelectSeq(calls, LAMBDA c : c.name = name)

FirstCallRaised ==
    /\ ViaExtract
    /\ Len(calls) >= 1
    /\ calls[1].name = "FindingsExtractor"
    /\ ~calls[1].ok

\* the three recognized classes of size-related error
ContextOverflowClass(e) == e.cls = "ContextWindowOverflowException"
MaxTokensClass(e) == e.cls = "MaxTokensReachedException"
ProviderSizeClass(e) ==
    e.cls = "ClientError" /\ e.code \in { "ValidationException", "ModelErrorException" }
RecognizedSizeError(e) ==
    ContextOverflowClass(e) \/ MaxTokensClass(e) \/ ProviderSizeClass(e)

\* C1: a text of at most PASSTHROUGH_THRESHOLD characters handed to _extract
\* through any of the public functions is returned unchanged and no model
\* agent is created or called; this includes the condenser applied again to
\* an already condensed result under the threshold.
C1_Passthrough ==
    (ViaExtract /\ StrLen(content) <= PASSTHROUGH_THRESHOLD) =>
        /\ calls = << >>
        /\ cpc \in { "extract", "returned" }
        /\ cpc = "returned" => ret = content

\* C1 witness: the condenser applied to its own condensed result (a model
\* response under the threshold) has returned it unchanged.
C1_Witness ==
    /\ ViaExtract
    /\ round = 1
    /\ cpc = "returned"
    /\ content # << >>
    /\ content[1].src = "response"
    /\ StrLen(content) <= PASSTHROUGH_THRESHOLD
    /\ ret = content
    /\ calls = << >>

\* C2: the boundary is inclusive.  A text of exactly PASSTHROUGH_THRESHOLD
\* characters makes no model call; a longer text makes exactly one
\* FindingsExtractor call, on the whole text with the caller's instructions,
\* and when that call returns its output is the result, unchanged, with no
\* further model call.
C2_Boundary ==
    ViaExtract =>
        /\ StrLen(content) = PASSTHROUGH_THRESHOLD => calls = << >>
        /\ (StrLen(content) > PASSTHROUGH_THRESHOLD /\ cpc # "extract") =>
              /\ Len(CallsOf("FindingsExtractor")) = 1
              /\ calls[1].name = "FindingsExtractor"
              /\ calls[1].input = content
              /\ calls[1].system_prompt = system_prompt
              /\ calls[1].ok =>
                    /\ cpc = "returned"
                    /\ ret = calls[1].out
                    /\ Len(calls) = 1

\* C2 witness: a text of PASSTHROUGH_THRESHOLD + 1 characters was extracted in
\* a single pass and the response, itself longer than the threshold, returned.
C2_Witness ==
    /\ ViaExtract
    /\ round = 0
    /\ StrLen(content) = PASSTHROUGH_THRESHOLD + 1
    /\ cpc = "returned"
    /\ Len(calls) = 1
    /\ calls[1].ok
    /\ ret = calls[1].out
    /\ StrLen(ret) > PASSTHROUGH_THRESHOLD

\* the result the chunked path owes for `text` under `prompt`, read off the
\* chunk and merge calls that were made
ChunkCallsCover(text, prompt) ==
    LET cc == CallsOf("ChunkExtractor")
        n  == (StrLen(text) + CHUNK_SIZE - 1) \div CHUNK_SIZE
    IN  /\ Len(cc) = IF n < MAX_CHUNKS THEN n ELSE MAX_CHUNKS
        /\ \A j \in 1..Len(cc) :
              /\ cc[j].system_prompt = prompt
              /\ cc[j].input = Slice(text, (j - 1) * CHUNK_SIZE, j * CHUNK_SIZE)

ChunkEntry(c, j) ==
    IF c.ok THEN c.out ELSE Str("could not be processed", j, IF j < 10 THEN 32 ELSE 33)

ChunkedResult ==
    LET cc == CallsOf("ChunkExtractor")
        mm == CallsOf("FindingsMerger")
        joined == Join(Str("newlines", 0, 2), [ j \in 1..Len(cc) |-> ChunkEntry(cc[j], j) ])
    IN  IF mm # << >> /\ mm[1].ok THEN mm[1].out ELSE joined

\* C3: when the single-pass call raises a recognized size-related error
\* (context-window overflow, max tokens reached, or a ClientError classified
\* as validation/size), _extract does not raise and returns what the chunked
\* path yields on the same text with the same instructions.
C3_Fallback ==
    (FirstCallRaised /\ RecognizedSizeError(calls[1].exc)) =>
        /\ cpc \in { "chunked", "returned" }
        /\ cpc = "returned" =>
              /\ ChunkCallsCover(content, system_prompt)
              /\ ret = ChunkedResult

\* C3 witness: a provider validation error sent a two-chunk text to the
\* chunked path, whose joined chunk results were returned.
C3_Witness ==
    /\ FirstCallRaised
    /\ ProviderSizeClass(calls[1].exc)
    /\ cpc = "returned"
    /\ Len(CallsOf("ChunkExtractor")) = 2
    /\ ret = Join(NewLines, chunk_results)
    /\ ret # << >>

\* C4: when the single-pass call raises anything that is not a recognized
\* size-related error, _extract raises that same exception and makes no
\* chunk-extraction or merge call.
C4_Reraise ==
    (FirstCallRaised /\ ~RecognizedSizeError(calls[1].exc)) =>
        /\ cpc = "raised"
        /\ exc = calls[1].exc
        /\ Len(calls) = 1

\* C4 witness: a ClientError with code AccessDeniedException was re-raised.
C4_Witness ==
    /\ FirstCallRaised
    /\ calls[1].exc = Exc("ClientError", "AccessDeniedException")
    /\ cpc = "raised"
    /\ exc = calls[1].exc

\* every step of the condenser makes one more model call or ends the call
CondenserProgress ==
    \/ Len(calls') = Len(calls) + 1
    \/ cpc' \in { "returned", "raised" }

\* C5: a condense call makes at most MAX_CHUNKS chunk-extraction calls and at
\* most one merge call, enters the fallback at most once (every chunk is
\* tried once, in one round), so at most MAX_CHUNKS + 2 model calls; every
\* step makes a model call or ends the call, and an unfinished call can
\* always take a step, so the call terminates.
C5_Bounded ==
    /\ [](/\ Len(CallsOf("FindingsExtractor")) <= 1
          /\ Len(CallsOf("ChunkExtractor")) <= MAX_CHUNKS
          /\ Len(CallsOf("FindingsMerger")) <= 1
          /\ Len(calls) <= MAX_CHUNKS + 2
          /\ \A j \in 1..Len(calls) :
                calls[j].name = "FindingsExtractor" => j = 1
          /\ \A j \in 1..Len(calls) :
                calls[j].name = "FindingsMerger" => j = Len(calls)
          /\ cpc \in { "extract", "chunked" } => ENABLED Condenser)
    /\ [][Condenser => CondenserProgress]_vars

\* C5 witness: a text of more than MAX_CHUNKS chunks ended after exactly
\* MAX_CHUNKS + 2 model calls.
C5_Witness ==
    /\ cpc = "returned"
    /\ StrLen(content) > MAX_CHUNKS * CHUNK_SIZE
    /\ Len(calls) = MAX_CHUNKS + 2
    /\ Len(CallsOf("ChunkExtractor")) = MAX_CHUNKS
    /\ Len(CallsOf("FindingsMerger")) = 1

\* the marker "[Chunk j could not be processed]" stands in the string t
HasMarker(t, j) ==
    \E i \in 1..Len(t) :
        /\ t[i].src = "could not be processed"
        /\ t[i].k = j
        /\ t[i].lo = 1

SomeChunkFailed == \E j \in 1..Len(CallsOf("ChunkExtractor")) : ~CallsOf("ChunkExtractor")[j].ok

\* the string t holds the marker of every failed chunk and the result of
\* every other chunk
KeepsEveryChunk(t) ==
    LET cc == CallsOf("ChunkExtractor") IN
    \A j \in 1..Len(cc) :
        IF cc[j].ok THEN Occurs(cc[j].out, t) ELSE HasMarker(t, j)

\* C6 as stated: whenever a chunk's call raised, the output the chunked path
\* returns holds that chunk's marker and the other chunks' results.
C6_Original ==
    (cpc = "returned" /\ SomeChunkFailed) => KeepsEveryChunk(ret)

\* C6 amended: whenever a chunk's call raised, the concatenation of the chunk
\* results holds that chunk's marker "[Chunk i could not be processed]"
\* (i 1-based) and the other chunks' results; the concatenation is what the
\* merge call is given, and it is the returned output whenever no merge call
\* returned (the concatenation was within the threshold, or the merge call
\* failed).  A merge call that returns decides the output by itself.
C6_Amended ==
    LET mm == CallsOf("FindingsMerger") IN
    (SomeChunkFailed /\ (cpc = "returned" \/ mm # << >>)) =>
        /\ Len(chunk_results) = Len(CallsOf("ChunkExtractor"))
        /\ KeepsEveryChunk(Join(NewLines, chunk_results))
        /\ mm # << >> => KeepsEveryChunk(mm[1].input)
        /\ (cpc = "returned" /\ (mm = << >> \/ ~mm[1].ok)) => KeepsEveryChunk(ret)

\* C6 witness: the second of three chunks failed, the merge call failed too,
\* and the returned concatenation holds the marker between two results.
C6_Witness ==
    LET cc == CallsOf("ChunkExtractor")
        mm == CallsOf("FindingsMerger")
    IN  /\ cpc = "returned"
        /\ Len(cc) = 3
        /\ cc[1].ok /\ ~cc[2].ok /\ cc[3].ok
        /\ mm # << >> /\ ~mm[1].ok
        /\ HasMarker(ret, 2)
        /\ Occurs(cc[1].out, ret) /\ Occurs(cc[3].out, ret)

(***************************************************************************)
(* Properties of the review command (Spec).                                *)
(***************************************************************************)
LastOf(seq) == seq[Len(seq)]

\* the steps a phase contributes to a run: its agent call, and for every
\* phase but the last the condenser call and its return
StepsOf(phase) ==
    IF phase = "Review"
    THEN << << "agent", phase >> >>
    ELSE << << "agent", phase >>, << "condense", phase >>, << "condensed", phase >> >>

\* the steps of a whole run, in order
RunOrder ==
    StepsOf(Phases[1]) \o StepsOf(Phases[2]) \o StepsOf(Phases[3])
        \o StepsOf(Phases[4]) \o StepsOf(Phases[5])

CondensedPhases == { "Requirements", "Architecture", "Questions", "Sparring" }

\* a condenser call made by run_review has not returned to it yet
CondenserCalled == cpc \in { "extract", "chunked", "returned", "raised" }

\* C7: run_review drives the five phases strictly in the order Requirements,
\* Architecture, Questions, Sparring, Review.  What has happened in a run is
\* always an initial part of: agent, condenser call, condenser return for
\* each of the first four phases in turn, then the Review agent; so each
\* phase's agent is invoked at most once, none is skipped or re-entered, and
\* a run that returns a result has invoked each exactly once.  The condenser
\* runs only on the output of the phase's agent that has just returned, and
\* no agent is invoked while it runs.
C7_Order ==
    /\ Len(trace) <= Len(RunOrder)
    /\ \A i \in 1..Len(trace) : << trace[i].kind, trace[i].phase >> = RunOrder[i]
    /\ \A i \in 1..(Len(trace) - 1) : trace[i].ok
    /\ result # << >> => /\ Len(trace) = Len(RunOrder)
                         /\ LastOf(trace).ok
    /\ CondenserCalled =>
         /\ Len(trace) >= 2
         /\ LastOf(trace).kind = "condense"
         /\ trace[Len(trace) - 1].kind = "agent"
         /\ content = trace[Len(trace) - 1].out
         /\ pc \in CondensedPhases => pc = LastOf(trace).phase
    /\ ~CondenserCalled => (trace = << >> \/ LastOf(trace).kind = "agent")
    /\ pc \in CondensedPhases => CondenserCalled

\* C7 witness: a completed run whose Questions output went through a model
\* call of the condenser.
C7_Witness ==
    /\ pc = "returned"
    /\ result # << >>
    /\ Len(trace) = Len(RunOrder)
    /\ result[1].gaps_findings # result[1].gaps

\* the raw output of the phase's agent, as the run recorded it
IsRaw(phase, v) ==
    \E j \in 1..Len(trace) :
        /\ trace[j].kind = "agent" /\ trace[j].phase = phase /\ trace[j].ok
        /\ trace[j].out = v

\* v is what the condenser returned for the raw output of the phase's agent
IsCondensed(phase, v) ==
    \E i \in 1..Len(trace) :
        /\ trace[i].kind = "condensed" /\ trace[i].phase = phase
        /\ trace[i].out = v
        /\ IsRaw(phase, trace[i].args[1])

\* the upstream phases whose condensed output the phase's agent is given
Upstream(phase) ==
    CASE phase = "Requirements" -> << >>
      [] phase = "Architecture" -> << "Requirements" >>
      [] phase = "Questions" -> << "Requirements", "Architecture" >>
      [] phase = "Sparring" -> << "Requirements", "Architecture", "Questions" >>
      [] phase = "Review" -> << "Requirements", "Architecture", "Questions", "Sparring" >>

\* C8: every downstream phase receives only condenser output as context.
\* The Architecture agent's one argument is a prompt that embeds the value
\* the condenser returned for the raw requirements (and not the raw
\* requirements, when the two differ); the Questions, Sparring and Review
\* phases are called with exactly the condenser's return values for the raw
\* outputs of the two, three and four phases before them, in phase order.
C8_CondensedOnly ==
    \A i \in 1..Len(trace) :
        trace[i].kind = "agent" =>
            LET phase == trace[i].phase
                args  == trace[i].args
                up    == Upstream(phase)
            IN  IF phase = "Requirements" THEN args = << ReqPrompt(ci_mode) >>
                ELSE IF phase = "Architecture"
                THEN /\ Len(args) = 1
                     /\ \E k \in 1..(i - 1) :
                          /\ IsCondensed("Requirements", trace[k].out)
                          /\ Occurs(trace[k].out, args[1])
                          /\ \A raw \in AgentOutputs("Requirements") :
                               (IsRaw("Requirements", raw) /\ raw # trace[k].out)
                                   => ~Occurs(raw, args[1])
                ELSE /\ Len(args) = Len(up)
                     /\ \A n \in 1..Len(up) : IsCondensed(up[n], args[n])

\* C8 witness: the Review agent was called with four condensed findings, the
\* first of them a model's extraction and not the raw requirements.
C8_Witness ==
    /\ trace # << >>
    /\ LastOf(trace).kind = "agent"
    /\ LastOf(trace).phase = "Review"
    /\ Len(LastOf(trace).args) = 4
    /\ IsCondensed("Requirements", LastOf(trace).args[1])
    /\ ~IsRaw("Requirements", LastOf(trace).args[1])
    /\ ~Passes(locals.req_summary)

\* an agent call of the run raised
AgentFailed == trace # << >> /\ ~LastOf(trace).ok

\* a condenser call of the run raised
CondenserFailed == cpc = "raised"

\* C9: if a phase agent call or a condenser call raises during run_review,
\* that same exception leaves run_review (it is the one the caller's handler
\* receives), the call that raised is the last thing the run did (no later
\* agent or condenser call, no repeated call), and no result record exists.
C9_Propagates ==
    /\ [](AgentFailed =>
            /\ pc \in { "except", "exited" }
            /\ error = LastOf(trace).exc
            /\ error \in AgentErrors
            /\ result = << >>
            /\ ~CondenserCalled)
    /\ [](CondenserFailed =>
            /\ exc # NoExc
            /\ Len(calls) = 1 /\ ~calls[1].ok /\ calls[1].exc = exc
            /\ result = << >>
            /\ LastOf(trace).kind = "condense"
            /\ (pc \in CondensedPhases \/ (pc \in { "except", "exited" } /\ error = exc)))
    /\ [][(AgentFailed \/ CondenserFailed) =>
            /\ trace' = trace
            /\ result' = << >>
            /\ UNCHANGED cvars
            /\ pc' \in { "except", "exited" }
            /\ CondenserFailed => error' = exc
            /\ AgentFailed => error' = error]_vars

\* C9 witness: the condenser call of the Questions phase raised an access
\* error, which reached the caller's handler.
C9_Witness ==
    /\ pc = "except"
    /\ CondenserFailed
    /\ error = ClientError("AccessDeniedException")
    /\ LastOf(trace).phase = "Questions"

\* C10: after a review command that ends in an error, review.md and
\* state.json in the output directory are exactly as they were before the
\* command started.
C10_Original ==
    (pc = "exited" /\ error # NoExc) =>
        /\ files[DEFAULT_REVIEW_FILE] = files0[DEFAULT_REVIEW_FILE]
        /\ files[DEFAULT_STATE_FILE] = files0[DEFAULT_STATE_FILE]

\* the entries of the result record that hold a phase's raw and condensed text
RawField(phase) ==
    CASE phase = "Requirements" -> "requirements_summary"
      [] phase = "Architecture" -> "architecture_summary"
      [] phase = "Questions" -> "gaps"
      [] phase = "Sparring" -> "risks"

FindingsField(phase) ==
    CASE phase = "Requirements" -> "requirements_findings"
      [] phase = "Architecture" -> "architecture_findings"
      [] phase = "Questions" -> "gaps_findings"
      [] phase = "Sparring" -> "risks_findings"

\* the run called the condenser on raw for the phase and it returned out
CondensedFrom(phase, raw, out) ==
    \E i \in 1..Len(trace) :
        /\ trace[i].kind = "condensed" /\ trace[i].phase = phase
        /\ trace[i].args = << raw >>
        /\ trace[i].out = out

\* C11: the record returned by a completed run_review holds, for each of the
\* Requirements, Architecture, Questions and Sparring phases, the raw output
\* of the phase's agent and the condenser's return value for exactly that
\* raw output, together with the raw output of the Review agent and the
\* names of the five agents.
C11_Record ==
    result # << >> =>
        LET res == result[1] IN
        /\ \A phase \in CondensedPhases :
             /\ IsRaw(phase, res[RawField(phase)])
             /\ CondensedFrom(phase, res[RawField(phase)], res[FindingsField(phase)])
        /\ IsRaw("Review", res.review)
        /\ res.agents_used = << "RequirementsAnalyst", "ArchitectureEvaluator",
                                "QuestionAgent", "SparringAgent", "ReviewAgent" >>

\* C11 witness: a returned record whose raw Sparring output and condensed
\* Sparring findings differ.
C11_Witness ==
    /\ result # << >>
    /\ ~Passes(result[1].risks)
    /\ result[1].risks_findings # result[1].risks
    /\ CondensedFrom("Sparring", result[1].risks, result[1].risks_findings)

\* lines 107, 122, 158-159, 170-171, 186: the header of a phase in the transcript
PhaseHeader(phase, ci) ==
    CASE phase = "Requirements" -> Lit("## Phase 1: Requirements Analysis\n", 34)
      [] phase = "Architecture" -> Lit("\n## Phase 2: Architecture Analysis\n", 35)
      [] phase = "Questions" ->
            IF ci THEN Lit("\n## Phase 3: Identified Gaps\n", 29)
                  ELSE Lit("\n## Phase 3: Clarifying Questions\n", 34)
      [] phase = "Sparring" ->
            IF ci THEN Lit("\n## Phase 4: Risk Analysis\n", 27)
                  ELSE Lit("\n## Phase 4: Architecture Sparring\n", 35)
      [] phase = "Review" -> Lit("\n## Phase 5: Final Review\n", 26)

\* the raw output of a phase in the result record
PhaseOutput(res, phase) == IF phase = "Review" THEN res.review ELSE res[RawField(phase)]

\* the first position at or after from where sub occurs in t, 0 if none
FirstAt(sub, t, from) ==
    LET at == { j \in from..(Len(t) - Len(sub) + 1) : SubSeq(t, j, j + Len(sub) - 1) = sub }
    IN  IF at = {} THEN 0 ELSE CHOOSE j \in at : \A k \in at : j <= k

\* whether the strings of list occur in t one after the other, from position from on
RECURSIVE InOrder(_, _, _)
InOrder(list, t, from) ==
    IF list = << >> THEN TRUE
    ELSE LET j == FirstAt(Head(list), t, from)
         IN  j # 0 /\ InOrder(Tail(list), t, j + Len(Head(list)))

\* the transcript holds each phase's header followed by the phase's output,
\* in phase order
TranscriptComplete(res) ==
    InOrder(<< PhaseHeader(Phases[1], res.ci_mode), PhaseOutput(res, Phases[1]),
               PhaseHeader(Phases[2], res.ci_mode), PhaseOutput(res, Phases[2]),
               PhaseHeader(Phases[3], res.ci_mode), PhaseOutput(res, Phases[3]),
               PhaseHeader(Phases[4], res.ci_mode), PhaseOutput(res, Phases[4]),
               PhaseHeader(Phases[5], res.ci_mode), PhaseOutput(res, Phases[5]) >>,
            res.full_session, 1)

\* C12: the full_session transcript of a completed run_review contains the
\* output of each of the five phases under its phase header, in phase order,
\* in interactive mode and in ci mode alike.
C12_Original ==
    result # << >> => TranscriptComplete(result[1])

(***************************************************************************)
(* Properties of the functions of strings (SpecFunctions).                 *)
(***************************************************************************)
\* the call of f has returned
Returned_(f) == func = f /\ value # << >>

\* the position of the last occurrence of word in text, 0 if there is none
LastPosition(text, word) ==
    LET at == { i \in 1..(Len(text) - Len(word) + 1) :
                  \A j \in 1..Len(word) : text[i + j - 1] = word[j] }
    IN  IF at = {} THEN 0 ELSE CHOOSE i \in at : \A j \in at : j <= i

\* whether word lies wholly within the n characters that follow the last
\* occurrence of "verdict" in text (text in lower case, "verdict" occurring)
InWindow(text, word, n) ==
    LET from == LastPosition(text, << "v", "e", "r", "d", "i", "c", "t" >>) + 7
        to   == IF Len(text) < from + n - 1 THEN Len(text) ELSE from + n - 1
    IN  \E i \in from..(to - Len(word) + 1) :
            \A j \in 1..Len(word) : text[i + j - 1] = word[j]

\* whether word occurs anywhere in text
Anywhere(text, word) == LastPosition(text, word) # 0

HighImpactMarker(text) ==
    \/ Anywhere(text, << "i", "m", "p", "a", "c", "t", ":", " ", "h", "i", "g", "h" >>)
    \/ Anywhere(text, << "i", "m", "p", "a", "c", "t", " ", "h", "i", "g", "h" >>)

\* the policy of the Verdict Resolver as stated, text in lower case
VerdictPolicy(text, strict_) ==
    IF Anywhere(text, << "v", "e", "r", "d", "i", "c", "t" >>)
    THEN IF InWindow(text, << "f", "a", "i", "l" >>, 50) THEN << "FAIL", 1 >>
         ELSE IF InWindow(text, << "p", "a", "s", "s", " ", "w", "i", "t", "h", " ", "c", "o", "n", "c", "e", "r", "n", "s" >>, 50)
         THEN IF strict_ /\ HighImpactMarker(text)
              THEN << "FAIL", 1 >> ELSE << "PASS WITH CONCERNS", 0 >>
         ELSE << "PASS", 0 >>
    ELSE IF \/ Anywhere(text, << "c", "r", "i", "t", "i", "c", "a", "l" >>)
            \/ Anywhere(text, << "s", "e", "v", "e", "r", "e" >>)
            \/ Anywhere(text, << "m", "a", "j", "o", "r", " ", "v", "u", "l", "n", "e", "r", "a", "b", "i", "l", "i", "t", "y" >>)
         THEN << "FAIL", 1 >>
         ELSE IF HighImpactMarker(text)
         THEN IF strict_ THEN << "FAIL", 1 >> ELSE << "PASS WITH CONCERNS", 0 >>
         ELSE << "PASS", 0 >>

\* C14: the Verdict Resolver (cli._extract_verdict) equals the stated policy
\* for every text and strict flag: with "verdict" in the text (any case) only
\* the 50 characters after its last occurrence decide between FAIL, PASS WITH
\* CONCERNS (FAIL when strict and the text has a high-impact marker) and
\* PASS; without it the critical terms give FAIL, a high-impact marker gives
\* FAIL when strict and PASS WITH CONCERNS otherwise, anything else PASS.
C14_Policy ==
    Returned_("cli._extract_verdict") =>
        value[1] = VerdictPolicy(Lower(arguments.review_text), arguments.strict)

\* C14 witness: strict escalation of "pass with concerns" by a high-impact
\* marker that lies outside the window.
C14_Witness ==
    /\ Returned_("cli._extract_verdict")
    /\ arguments.strict
    /\ ~InWindow(Lower(arguments.review_text), << "i", "m", "p", "a", "c", "t" >>, 50)
    /\ value[1] = << "FAIL", 1 >>
    /\ InWindow(Lower(arguments.review_text), << "p", "a", "s", "s", " ", "w", "i", "t", "h", " ", "c", "o", "n", "c", "e", "r", "n", "s" >>, 50)
    /\ ~InWindow(Lower(arguments.review_text), << "f", "a", "i", "l" >>, 50)
    /\ HighImpactMarker(Lower(arguments.review_text))

\* C15: state._extract_verdict looks at the 100 characters after the last
\* occurrence of "verdict" (any case): FAIL if they contain "fail", else PASS
\* WITH CONCERNS if they contain "pass with concerns", else PASS if they
\* contain "pass"; UNKNOWN if "verdict" never occurs.  The result is one of
\* the four labels, so the outcomes exclude each other.
C15_StateVerdict ==
    Returned_("state._extract_verdict") =>
        LET text == Lower(arguments.review_text)
            has  == Anywhere(text, << "v", "e", "r", "d", "i", "c", "t" >>)
            f    == has /\ InWindow(text, << "f", "a", "i", "l" >>, 100)
            c    == has /\ InWindow(text, << "p", "a", "s", "s", " ", "w", "i", "t", "h", " ", "c", "o", "n", "c", "e", "r", "n", "s" >>, 100)
            p    == has /\ InWindow(text, << "p", "a", "s", "s" >>, 100)
        IN  /\ value[1] \in { "FAIL", "PASS WITH CONCERNS", "PASS", "UNKNOWN" }
            /\ f => value[1] = "FAIL"
            /\ (~f /\ c) => value[1] = "PASS WITH CONCERNS"
            /\ (~f /\ ~c /\ p) => value[1] = "PASS"
            /\ ~has => value[1] = "UNKNOWN"

\* C15 witness: "pass with concerns" decides, for a text with "fail" before
\* the last "verdict" and "pass" inside the window.
C15_Witness ==
    /\ Returned_("state._extract_verdict")
    /\ value[1] = "PASS WITH CONCERNS"
    /\ Anywhere(Lower(arguments.review_text), << "f", "a", "i", "l" >>)
    /\ InWindow(Lower(arguments.review_text), << "p", "a", "s", "s" >>, 100)

\* C16: the Verdict Resolver returns only exit code 0 or 1: 1 exactly when
\* the label is FAIL, 0 exactly when the label is PASS or PASS WITH CONCERNS;
\* never MEDIUM_RISK (2) or ERROR (3).
C16_ExitCodes ==
    Returned_("cli._extract_verdict") =>
        /\ value[1][2] \in { EXIT_SUCCESS, EXIT_HIGH_RISK }
        /\ value[1][2] \notin { EXIT_MEDIUM_RISK, EXIT_ERROR }
        /\ value[1][1] \in { "FAIL", "PASS", "PASS WITH CONCERNS" }
        /\ value[1][2] = EXIT_HIGH_RISK <=> value[1][1] = "FAIL"
        /\ value[1][2] = EXIT_SUCCESS <=> value[1][1] \in { "PASS", "PASS WITH CONCERNS" }

\* C16 witness: the label PASS WITH CONCERNS returned with code 0 for a text
\* with a high-impact marker and no "verdict".
C16_Witness ==
    /\ Returned_("cli._extract_verdict")
    /\ value[1] = << "PASS WITH CONCERNS", EXIT_SUCCESS >>
    /\ ~Contains(Lower(arguments.review_text), << "v", "e", "r", "d", "i", "c", "t" >>)

(***************************************************************************)
(* Properties of the finding parser (SpecFunctions).                       *)
(***************************************************************************)
\* extract_state_from_review has returned a ReviewState
Parsed == Returned_("extract_state_from_review") /\ value[1].ok

\* the three arguments of the call
ReviewText == arguments.review_result.review

GapsContext == arguments.review_result.gaps

RisksContext == arguments.review_result.risks

\* C13: when the gaps context is the review text itself and the review text
\* alone holds exactly one gap, the parser returns exactly one Gap record.
C13_Original ==
    ( /\ Parsed
      /\ GapsContext = ReviewText
      /\ Len(ExtractGaps(ReviewText, << >>)) = 1 )
        => Len(value[1].state.gaps) = 1

\* the smaller of two numbers
Min(a, b) == IF a < b THEN a ELSE b

\* C17: the parser returns at most 20 gaps, 10 risks and 10 recommendations,
\* and of a list of n items under a recognized heading it retains the first
\* ones, in the order of the list: n or the cap, whichever is smaller.
C17_Caps ==
    Parsed =>
        LET state == value[1].state IN
        /\ Len(state.gaps) <= 20
        /\ Len(state.risks) <= 10
        /\ Len(state.recommendations) <= 10
        /\ \A n \in ItemCounts :
            /\ ReviewText = ListDocument(ParserLines[1], n) =>
                 /\ Len(state.gaps) >= Min(n, 20)
                 /\ \A k \in 1..Min(n, 20) : state.gaps[k] = Gap(k, ItemText_(k))
            /\ (ReviewText = ListDocument(ParserLines[5], n) /\ GapsContext # ContextDocument) =>
                 /\ Len(state.gaps) = Min(n, 20)
                 /\ \A k \in 1..Min(n, 20) : state.gaps[k] = NotFoundGap(k, ItemText_(k))
            /\ ReviewText = ListDocument(ParserLines[3], n) =>
                 /\ Len(state.risks) >= Min(n, 10)
                 /\ \A k \in 1..Min(n, 10) : state.risks[k] = Risk(k, ItemText_(k))
            /\ ReviewText = ListDocument(ParserLines[4], n) =>
                 /\ Len(state.recommendations) = Min(n, 10)
                 /\ \A k \in 1..Min(n, 10) : state.recommendations[k] = ItemText_(k)

\* C17 witness: the longest list of gap bullets, of which exactly the first
\* 20 are returned.
C17_Witness ==
    /\ Parsed
    /\ ReviewText = ListDocument(ParserLines[1], MaxItems)
    /\ GapsContext = << >>
    /\ Len(value[1].state.gaps) = 20
    /\ value[1].state.gaps[20].description = ItemText_(20)

\* no line of the text opens a section of any kind
SectionLess(text) ==
    LET lines == SplitLines(text) IN
    \A k \in 1..Len(lines) :
        LET line == lines[k]
        IN  /\ ~GapsHeading(line)
            /\ ~RisksHeading(line)
            /\ ~RecommendationsHeading(line)
            /\ ~NotFoundHeading(line)

\* C18: extract_state_from_review returns a ReviewState for every input and
\* never raises; when neither the review text nor the contexts have a
\* section heading, its gaps, risks and recommendations are empty.
C18_NeverRaises ==
    Returned_("extract_state_from_review") =>
        /\ value[1].ok
        /\ (SectionLess(ReviewText) /\ SectionLess(GapsContext) /\ SectionLess(RisksContext)) =>
              /\ value[1].state.gaps = << >>
              /\ value[1].state.risks = << >>
              /\ value[1].state.recommendations = << >>

\* C18 witness: a review text of bullets and an empty line under no heading,
\* parsed into empty lists.
C18_Witness ==
    /\ Parsed
    /\ ReviewText = JoinLines(<< ParserLines[6], ParserLines[11], ParserLines[10] >>)
    /\ SectionLess(GapsContext)
    /\ value[1].state.gaps = << >>
    /\ value[1].state.risks = << >>
    /\ value[1].state.recommendations = << >>

\* C19: decoding the JSON text of a ReviewState gives back an equal
\* ReviewState with the same fields, both directly
\* (from_json(to_json(s))) and through a file (save(s), then from_file).
C19_RoundTrip ==
    (Returned_("ReviewState.from_json") \/ Returned_("ReviewState.from_file")) =>
        /\ value[1].ok
        /\ DOMAIN value[1].state = DOMAIN arguments.state
        /\ value[1].state = arguments.state

\* C19 witness: a state with a backslash before "n" in its project name and
\* a line break in a gap description, read back from a file written with
\* "\r\n" line ends.
C19_Witness ==
    /\ Returned_("ReviewState.from_file")
    /\ arguments.linesep = << "\r", "\n" >>
    /\ arguments.state.project_name = << "C", ":", "\\", "n" >>
    /\ Len(arguments.state.gaps) = 2
    /\ arguments.state.gaps[1].description = << "x", "\n", "y" >>
    /\ value[1].ok
    /\ value[1].state.gaps[1].description = << "x", "\n", "y" >>
    /\ value[1].state.project_name = << "C", ":", "\\", "n" >>

(***************************************************************************)
(* Properties of the exit status of the review command (Spec).             *)
(***************************************************************************)
\* C20: the review command exits with EXIT_ERROR (3) whenever the
\* construction of the orchestrator, run_review or the writing of the
\* results raised; otherwise run_review returned and the exit status is the
\* code of the Verdict Resolver for the returned review text and the strict
\* flag.
C20_ExitStatus ==
    pc = "exited" =>
        /\ (error # NoExc \/ AgentFailed \/ CondenserFailed \/ result = << >>)
              => exit_code = EXIT_ERROR
        /\ error = NoExc =>
              /\ result # << >>
              /\ exit_code = CliExtractVerdict(CharsOf(result[1].review), strict)[2]
              /\ exit_code \in { EXIT_SUCCESS, EXIT_HIGH_RISK }

\* C20 witness: run_review returned a review, review.md was written and the
\* writing of state.json raised: the command exited with 3.
C20_Witness ==
    /\ pc = "exited"
    /\ result # << >>
    /\ files[DEFAULT_REVIEW_FILE] = TextFile(result[1].full_session)
    /\ error = Exc("OSError", "")
    /\ exit_code = EXIT_ERROR
    /\ CliExtractVerdict(CharsOf(result[1].review), strict)[2] = EXIT_SUCCESS

(***************************************************************************)
(* Properties of the construction of the orchestrator (Spec).              *)
(***************************************************************************)
\* the two errors the constructor raises itself
NoAccessError == Exc("RuntimeError", "Model not accessible.")

NoPolicyError == Exc("RuntimeError", "Policy Engine setup failed.")

\* C21: a step of the constructor either raises one of its two
\* RuntimeErrors with no agent created, or creates the agents with an
\* engine id or with skip_policy_check set; the policy error is raised only
\* when skip_policy_check is not set; after either error no agent exists
\* and no phase has run; agents exist and phases run without an engine id
\* only when skip_policy_check was given.
C21_Construction ==
    /\ [][pc = "construct" =>
            \/ /\ pc' = "except"
               /\ error' \in { NoAccessError, NoPolicyError }
               /\ error' = NoPolicyError => ~skip_policy_check
               /\ agents' = {}
            \/ /\ pc' = "run"
               /\ agents' = CreatedAgents
               /\ policy_engine_id' # "" \/ skip_policy_check]_vars
    /\ [](error \in { NoAccessError, NoPolicyError } =>
            agents = {} /\ trace = << >> /\ result = << >>)
    /\ []((agents # {} \/ trace # << >>) =>
            /\ agents = CreatedAgents
            /\ policy_engine_id # "" \/ skip_policy_check)

\* C21 witness: the command has ended in the policy error, without agents
\* and without a phase.
C21_Witness ==
    /\ pc = "exited"
    /\ error = NoPolicyError
    /\ ~skip_policy_check
    /\ agents = {}
    /\ trace = << >>
    /\ exit_code = EXIT_ERROR

(***************************************************************************)
(* Properties of the remediation command (SpecRemediate).                  *)
(***************************************************************************)
\* the state file the command found does not load
StateFileCorrupt ==
    /\ files0[DEFAULT_STATE_FILE] # Absent
    /\ ~FromFile(files0[DEFAULT_STATE_FILE].parts[1]).ok

\* C22: when state.json is missing, and when loading it raises, the
\* remediation command exits with EXIT_ERROR (3), no remediation agent was
\* created, no notes were produced and no file of the output directory was
\* written; in the second case the error of the load is the one handled.
C22_Persistence ==
    /\ (files0[DEFAULT_STATE_FILE] = Absent \/ StateFileCorrupt) =>
          /\ agents = {}
          /\ result = << >>
          /\ value = << >>
          /\ files = files0
          /\ pc \in { "remediate", "except", "exited" }
          /\ pc = "exited" => exit_code = EXIT_ERROR
    /\ (StateFileCorrupt /\ pc \in { "except", "exited" }) =>
          error.cls \in { "JSONDecodeError", "TypeError" }

\* C22 witness: a state file cut off in the middle, next to the notes of an
\* earlier run; the command has exited with 3.
C22_Witness ==
    /\ pc = "exited"
    /\ exit_code = EXIT_ERROR
    /\ StateFileCorrupt
    /\ Len(files0[DEFAULT_STATE_FILE].parts[1]) > 2
    /\ error.cls = "JSONDecodeError"
    /\ files0[DEFAULT_REMEDIATION_FILE] # Absent
    /\ files = files0

(***************************************************************************)
(* Properties of the chunked fallback (SpecCondense).                      *)
(***************************************************************************)
\* the model calls of this condenser call that raised an error that is not
\* size-related
OtherFailures ==
    { j \in 1..Len(calls) : ~calls[j].ok /\ ~IsSizeRelated(calls[j].exc) }

\* C23: every error of a model call that is not size-related leaves the
\* condenser call: once such a call has raised, the condenser call has
\* raised that error, and it never returns a string.
C23_Original ==
    OtherFailures # {} =>
        /\ cpc = "raised"
        /\ \E j \in OtherFailures : exc = calls[j].exc

\* C23 as amended: an error that is not size-related leaves the condenser
\* call exactly when the single-pass call of _extract raised it: the
\* condenser call has then raised that error after this one model call.  A
\* per-chunk call that raises, whatever the error, leaves the placeholder of
\* its chunk at the chunk's position, and a merge call that raises makes the
\* concatenation the result; neither makes the condenser call raise.
C23_Amended ==
    /\ \A j \in OtherFailures :
          IF calls[j].name = "FindingsExtractor"
          THEN cpc = "raised" /\ exc = calls[j].exc /\ Len(calls) = 1
          ELSE cpc # "raised"
    /\ cpc = "raised" =>
          /\ Len(calls) = 1
          /\ calls[1].name = "FindingsExtractor"
          /\ ~calls[1].ok
          /\ ~IsSizeRelated(calls[1].exc)
    /\ \A j \in 1..Len(CallsOf("ChunkExtractor")) :
          ~CallsOf("ChunkExtractor")[j].ok => chunk_results[j] = Placeholder(j)
    /\ \A j \in 1..Len(calls) :
          (calls[j].name = "FindingsMerger" /\ ~calls[j].ok) =>
              /\ j = Len(calls)
              /\ cpc = "returned"
              /\ ret = Combined(chunk_results)

\* C23 witness: a per-chunk call raised a RuntimeError and the condenser
\* call returned a string with the chunk's placeholder.
C23_Witness ==
    /\ cpc = "returned"
    /\ \E j \in 1..Len(CallsOf("ChunkExtractor")) :
          /\ CallsOf("ChunkExtractor")[j].exc = Exc("RuntimeError", "")
          /\ HasMarker(ret, j)

\* the chunked path is running or has run in this condenser call
ChunkedEntered ==
    \/ fn = "_chunked_extract"
    \/ /\ calls # << >>
       /\ calls[1].name = "FindingsExtractor"
       /\ ~calls[1].ok
       /\ IsSizeRelated(calls[1].exc)

MergeCalls == CallsOf("FindingsMerger")

\* C24: the chunked path never raises, and what it returns follows the merge
\* rule: a concatenation within PASSTHROUGH_THRESHOLD is returned as it is
\* without a merge call; otherwise exactly one merge call is made, on the
\* concatenation, and its output is returned, or the non-empty concatenation
\* if the merge call raised.
C24_MergeRule ==
    ChunkedEntered =>
        /\ cpc \in { "chunked", "returned" }
        /\ exc = NoExc
        /\ cpc = "chunked" => MergeCalls = << >>
        /\ cpc = "returned" =>
              IF Passes(Combined(chunk_results))
              THEN /\ MergeCalls = << >>
                   /\ ret = Combined(chunk_results)
              ELSE /\ Len(MergeCalls) = 1
                   /\ calls[Len(calls)] = MergeCalls[1]
                   /\ MergeCalls[1].input = Combined(chunk_results)
                   /\ IF MergeCalls[1].ok
                      THEN ret = MergeCalls[1].out
                      ELSE ret = Combined(chunk_results) /\ StrLen(ret) > 0

\* C24 witness: the merge call raised and the chunked path returned the
\* concatenation, which is longer than PASSTHROUGH_THRESHOLD.
C24_Witness ==
    /\ ChunkedEntered
    /\ cpc = "returned"
    /\ MergeCalls # << >>
    /\ ~MergeCalls[1].ok
    /\ StrLen(ret) > PASSTHROUGH_THRESHOLD

ChunkCalls == CallsOf("ChunkExtractor")

\* how many chunks of CHUNK_SIZE characters the first MAX_CHUNKS chunks of a
\* text of n characters are
ProcessedChunks(n) ==
    LET all == IF n % CHUNK_SIZE = 0 THEN n \div CHUNK_SIZE ELSE n \div CHUNK_SIZE + 1
    IN  IF all < MAX_CHUNKS THEN all ELSE MAX_CHUNKS

\* the pieces of the condensed document in the string t lie within its
\* first n characters
DocumentWithin(t, n) ==
    \A i \in 1..Len(t) : t[i].src = "document" => t[i].hi <= n

\* C25: in the chunked fallback the j-th chunk call receives the characters
\* (j-1)*CHUNK_SIZE .. j*CHUNK_SIZE of the text, CHUNK_SIZE of them unless it
\* is the last chunk of the text; the chunks are processed one at a time in
\* source order, each leaving its result or its placeholder at its position
\* of the list that is concatenated; when the loop is over, the first
\* min(number of chunks, MAX_CHUNKS) chunks have an entry each; and no
\* character beyond the first MAX_CHUNKS chunks is sent to a model.
C25_Chunks ==
    ChunkedEntered =>
        LET n == StrLen(content) IN
        /\ Len(chunk_results) = Len(ChunkCalls)
        /\ Len(ChunkCalls) <= ProcessedChunks(n)
        /\ (cpc = "returned" \/ MergeCalls # << >>) => Len(ChunkCalls) = ProcessedChunks(n)
        /\ \A j \in 1..Len(ChunkCalls) :
              /\ ChunkCalls[j].input = Slice(content, (j - 1) * CHUNK_SIZE, j * CHUNK_SIZE)
              /\ StrLen(ChunkCalls[j].input) =
                     IF j * CHUNK_SIZE <= n THEN CHUNK_SIZE ELSE n - (j - 1) * CHUNK_SIZE
              /\ StrLen(ChunkCalls[j].input) > 0
              /\ chunk_results[j] =
                     IF ChunkCalls[j].ok THEN ChunkCalls[j].out ELSE Placeholder(j)
        /\ \A j \in 1..Len(calls) :
              /\ (calls[j].name = "ChunkExtractor" /\ fn = "_chunked_extract") =>
                    ChunkCalls[j] = calls[j]
              /\ (calls[j].name = "ChunkExtractor" /\ fn # "_chunked_extract") =>
                    ChunkCalls[j - 1] = calls[j]
              /\ calls[j].name = "FindingsMerger" =>
                    calls[j].input = Combined(chunk_results)
              /\ (calls[j].name # "FindingsExtractor" /\ round = 0) =>
                    DocumentWithin(calls[j].input, MAX_CHUNKS * CHUNK_SIZE)

\* C25 witness: a text of more than MAX_CHUNKS chunks went through the chunked
\* fallback, a chunk that is not the last one failed, and the call returned.
C25_Witness ==
    /\ ChunkedEntered
    /\ cpc = "returned"
    /\ round = 0
    /\ StrLen(content) > MAX_CHUNKS * CHUNK_SIZE
    /\ Len(chunk_results) = MAX_CHUNKS
    /\ ~ChunkCalls[1].ok
    /\ ChunkCalls[MAX_CHUNKS].ok

(***************************************************************************)
(* Properties of the sections of the parser (SpecFunctions).               *)
(***************************************************************************)
\* the line is a heading line that holds "gap": the keyword in any case,
\* with "##" or with the word "key"
OpensGaps(line) ==
    /\ Contains(Lower(line), << "g", "a", "p" >>)
    /\ Contains(line, << "#", "#" >>) \/ Contains(Lower(line), << "k", "e", "y" >>)

\* the line is a heading line: it starts with "##"
IsHeadingLine(line) == StartsWith(Strip(line), << "#", "#" >>)

\* the line starts with a bullet marker
IsBulletLine(line) == StartsWith(Strip(line), << "-" >>)

\* the line i of lines lies inside an open gaps section: a heading with "gap"
\* stands before it, and no other heading line in between
InGapsSection(lines, i) ==
    \E j \in 1..(i - 1) :
        /\ OpensGaps(lines[j])
        /\ \A k \in (j + 1)..(i - 1) : OpensGaps(lines[k]) \/ ~IsHeadingLine(lines[k])

\* the indices of a list that satisfy Test, in ascending order
Indices(list, Test(_, _)) ==
    SelectSeq([ i \in 1..Len(list) |-> i ], LAMBDA i : Test(list, i))

\* the line i is a bullet line inside an open gaps section
IsGapBullet(lines, i) ==
    /\ InGapsSection(lines, i)
    /\ ~OpensGaps(lines[i])
    /\ IsBulletLine(lines[i])

\* the line i is a bullet line inside an open gaps section whose text has
\* more than five characters
IsLongGapBullet(lines, i) == IsGapBullet(lines, i) /\ Len(BulletText(lines[i])) > 5

\* the descriptions of the bullet lines of a source that satisfy Test, in
\* line order
Descriptions(source, Test(_, _)) ==
    LET lines == SplitLines(source)
        at == Indices(lines, Test)
    IN  [ k \in 1..Len(at) |-> Prefix(BulletText(lines[at[k]]), 200) ]

\* the gaps of the result are those of the list expected: as many of them as
\* the cap leaves, in the order of the list, and any gap after them stands in
\* a bullet line of a review text that holds "not found"
GapsAre(expected) ==
    LET gaps == value[1].state.gaps
        n == Min(Len(expected), 20)
    IN  /\ Len(gaps) >= n
        /\ \A k \in 1..n : gaps[k].description = expected[k]
        /\ Len(gaps) > n =>
              /\ Contains(Lower(ReviewText), << "n", "o", "t", " ", "f", "o", "u", "n", "d" >>)
              /\ \A k \in (n + 1)..Len(gaps) :
                    \E i \in 1..Len(SplitLines(ReviewText)) :
                        /\ IsBulletLine(SplitLines(ReviewText)[i])
                        /\ gaps[k].description = Prefix(BulletText(SplitLines(ReviewText)[i]), 200)

\* C26 as stated: the gaps scan of the two sources yields one gap for every
\* bullet line inside an open gaps section, in line order, its description
\* the line without its marker, cut to 200 characters, and no other gap.
C26_Original ==
    Parsed => GapsAre(Descriptions(ReviewText, IsGapBullet) \o Descriptions(GapsContext, IsGapBullet))

\* C26 as amended: the gaps scan of the two sources yields one gap for every
\* bullet line inside an open gaps section whose text, without its marker,
\* has more than five characters; in line order, the description being that
\* text cut to 200 characters; and no other gap.  The section is open from a
\* line with "gap" and "##" or "key" to the next line that starts with "##".
C26_Amended ==
    Parsed => GapsAre(Descriptions(ReviewText, IsLongGapBullet) \o Descriptions(GapsContext, IsLongGapBullet))

\* C26 witness: of a text with a bullet that reads as a heading, a "#" line
\* inside the section, a bullet of more than 200 characters and a bullet
\* after the section's end, the three bullets of the section are the gaps.
C26_Witness ==
    /\ Parsed
    /\ GapsContext = << >>
    /\ Len(value[1].state.gaps) = 3
    /\ Len(value[1].state.gaps[3].description) = 200
    /\ Len(Descriptions(ReviewText, IsGapBullet)) = 3
    /\ \E i \in 1..Len(SplitLines(ReviewText)) :
          IsBulletLine(SplitLines(ReviewText)[i]) /\ OpensGaps(SplitLines(ReviewText)[i])

\* the line is a heading line that holds "risk": the keyword in any case,
\* with "##" or with the word "top"
OpensRisks(line) ==
    /\ Contains(Lower(line), << "r", "i", "s", "k" >>)
    /\ Contains(line, << "#", "#" >>) \/ Contains(Lower(line), << "t", "o", "p" >>)

\* the line i of lines lies inside an open risks section
InRisksSection(lines, i) ==
    \E j \in 1..(i - 1) :
        /\ OpensRisks(lines[j])
        /\ \A k \in (j + 1)..(i - 1) : OpensRisks(lines[k]) \/ ~IsHeadingLine(lines[k])

\* the line i is a candidate: inside an open risks section, it starts with a
\* digit or with a bullet marker
IsRiskCandidate(lines, i) ==
    /\ InRisksSection(lines, i)
    /\ ~OpensRisks(lines[i])
    /\ Strip(lines[i]) # << >>
    /\ IsDigit(Strip(lines[i])[1]) \/ Strip(lines[i])[1] = "-"

\* the texts of the candidates of a source, their prefix stripped, in line
\* order
RiskCandidates(source) ==
    LET lines == SplitLines(source)
        at == Indices(lines, IsRiskCandidate)
    IN  [ k \in 1..Len(at) |-> ItemText(Strip(lines[at[k]])) ]

RECURSIVE Recorded(_, _, _)
\* the candidates recorded from the m-th on, after those of the list
\* recorded: a candidate is recorded exactly when it has more than 10
\* characters and its first 50 characters are in no description (the first
\* 200 characters) of a candidate recorded before
Recorded(candidates, m, recorded) ==
    IF m > Len(candidates) THEN recorded
    ELSE IF /\ Len(candidates[m]) > 10
            /\ \A k \in 1..Len(recorded) :
                  ~Contains(Prefix(recorded[k], 200), Prefix(candidates[m], 50))
         THEN Recorded(candidates, m + 1, Append(recorded, candidates[m]))
         ELSE Recorded(candidates, m + 1, recorded)

TwoDigits(i) ==
    IF i < 10 THEN << Digits[i + 1] >> ELSE << Digits[(i \div 10) + 1], Digits[(i % 10) + 1] >>

\* C28: in every result of the parser the i-th gap has the id "gap-i" and the
\* i-th risk the id "risk-i", i counting from 1 in the order of the list.
C28_Ids ==
    Parsed =>
        /\ \A i \in 1..Len(value[1].state.gaps) :
              value[1].state.gaps[i].id = << "g", "a", "p", "-" >> \o TwoDigits(i)
        /\ \A i \in 1..Len(value[1].state.risks) :
              value[1].state.risks[i].id = << "r", "i", "s", "k", "-" >> \o TwoDigits(i)

\* C28 witness: the gaps context gives the first gap, the Features-Not-Found
\* pass the second one, skipping a bullet that repeats it; the risks context
\* gives two risks.
C28_Witness ==
    /\ Parsed
    /\ ReviewText = JoinLines(<< ParserLines[5], ParserLines[7], ParserLines[8] >>)
    /\ GapsContext = ContextDocument
    /\ Len(value[1].state.gaps) = 2
    /\ value[1].state.gaps[1].description = BulletText(ParserLines[6])
    /\ value[1].state.gaps[2].id = << "g", "a", "p", "-", "2" >>
    /\ Len(value[1].state.risks) = 2
    /\ value[1].state.risks[2].id = << "r", "i", "s", "k", "-", "2" >>

\* the severity of a text by its keywords, in any case: "critical" or "high"
\* first, then "low" or "minor", medium otherwise
KeywordSeverity(text) ==
    IF Contains(Lower(text), << "c", "r", "i", "t", "i", "c", "a", "l" >>) \/ Contains(Lower(text), << "h", "i", "g", "h" >>) THEN "high"
    ELSE IF Contains(Lower(text), << "l", "o", "w" >>) \/ Contains(Lower(text), << "m", "i", "n", "o", "r" >>) THEN "low"
    ELSE "medium"

\* the texts of the bullet lines of a source that satisfy Test, in line order
BulletTexts(source, Test(_, _)) ==
    LET lines == SplitLines(source)
        at == Indices(lines, Test)
    IN  [ k \in 1..Len(at) |-> BulletText(lines[at[k]]) ]

\* C29: the severity of every gap found in a gaps section and the impact of
\* every risk is the one its text's keywords give, "critical" and "high"
\* before "low" and "minor", medium without a keyword; every gap added by the
\* Features-Not-Found pass is medium.
C29_Severity ==
    Parsed =>
        LET gaps == value[1].state.gaps
            risks == value[1].state.risks
            found == BulletTexts(ReviewText, IsLongGapBullet) \o BulletTexts(GapsContext, IsLongGapBullet)
            recorded == Recorded(RiskCandidates(ReviewText) \o RiskCandidates(RisksContext), 1, << >>)
        IN  /\ \A k \in 1..Len(gaps) :
                  gaps[k].severity = IF k <= Len(found) THEN KeywordSeverity(found[k]) ELSE "medium"
            /\ \A k \in 1..Len(risks) : risks[k].impact = KeywordSeverity(recorded[k])

\* C29 witness: a gap of a gaps section is high by "critical" though it
\* holds "low", and the gap of the Features-Not-Found pass is medium though
\* it holds "high".
C29_Witness ==
    /\ Parsed
    /\ GapsContext = << >>
    /\ Len(value[1].state.gaps) = 4
    /\ Contains(value[1].state.gaps[2].description, << "l", "o", "w" >>)
    /\ value[1].state.gaps[2].severity = "high"
    /\ Contains(value[1].state.gaps[4].description, << "h", "i", "g", "h" >>)
    /\ value[1].state.gaps[4].severity = "medium"

(***************************************************************************)
(* The two verdict extractors on the same review text (SpecFunctions).     *)
(***************************************************************************)
\* the label the Verdict Resolver returns for the text without --strict
ResolverLabel(review_text) == CliExtractVerdict(review_text, FALSE)[1]

\* the call of state._extract_verdict on a text with "verdict" has returned
StateVerdictReturned ==
    /\ Returned_("state._extract_verdict")
    /\ Anywhere(Lower(arguments.review_text), << "v", "e", "r", "d", "i", "c", "t" >>)

\* C30 as stated: for every review text with "verdict" the verdict of the
\* ReviewState is the label the Verdict Resolver returns without --strict.
C30_Original ==
    StateVerdictReturned => value[1] = ResolverLabel(arguments.review_text)

\* within the 100 characters after the last "verdict" the word that decides
\* lies within the first 50: "fail" if it occurs, otherwise "pass with
\* concerns" if it occurs; and "fail" or "pass" does occur
DecidedWithin50(text) ==
    /\ InWindow(text, << "f", "a", "i", "l" >>, 100) => InWindow(text, << "f", "a", "i", "l" >>, 50)
    /\ (~InWindow(text, << "f", "a", "i", "l" >>, 100) /\ InWindow(text, << "p", "a", "s", "s", " ", "w", "i", "t", "h", " ", "c", "o", "n", "c", "e", "r", "n", "s" >>, 100)) =>
           InWindow(text, << "p", "a", "s", "s", " ", "w", "i", "t", "h", " ", "c", "o", "n", "c", "e", "r", "n", "s" >>, 50)
    /\ InWindow(text, << "f", "a", "i", "l" >>, 100) \/ InWindow(text, << "p", "a", "s", "s" >>, 100)

\* C30 as amended: for a review text with "verdict", the verdict of the
\* ReviewState is the label the Verdict Resolver returns without --strict
\* exactly when the deciding word lies within the 50 characters after the
\* last "verdict"; a word found only in the characters 51 to 100, or no word
\* at all (UNKNOWN against PASS), makes the two differ.
C30_Amended ==
    StateVerdictReturned =>
        (value[1] = ResolverLabel(arguments.review_text)
            <=> DecidedWithin50(Lower(arguments.review_text)))

\* C30 witness: "pass" lies only in the characters 51 to 100 after "verdict"
\* and both extractors give PASS.
C30_Witness ==
    /\ StateVerdictReturned
    /\ InWindow(Lower(arguments.review_text), << "p", "a", "s", "s" >>, 100)
    /\ ~InWindow(Lower(arguments.review_text), << "p", "a", "s", "s" >>, 50)
    /\ value[1] = "PASS"
    /\ ResolverLabel(arguments.review_text) = "PASS"
=============================================================================
